---- MODULE Spec2Model ----
(***************************************************************************)
(* A model of jflow: the structured grid (ids, handles, range2d and its   *)
(* iterator), the Euler flux functions and the finite-volume residual      *)
(* assembler.                                                              *)
(*                                                                         *)
(* Conventions.                                                            *)
(*  - C++ size2 / vector2 / vector4 are tuples; C++ index [k] is tuple     *)
(*    index [k+1].  Element ids stay 0-based as in the source; sequences   *)
(*    that stand for std::vector / DynamicVector hold id n at index n+1.   *)
(*  - std::size_t arithmetic is modular (see SizeMod).                     *)
(*  - double arithmetic is modelled by exact rationals <<num, den>> with   *)
(*    den > 0 in lowest terms; <<0, 0>> stands for a non-finite value      *)
(*    (the result of a division by zero and of anything computed from it). *)
(*  - `checked` tells whether check_precondition is compiled in (NDEBUG    *)
(*    not defined) or is a no-op.                                          *)
(***************************************************************************)
EXTENDS Integers, Sequences, FiniteSets, TLC

\* ------------------------------------------------------------------ bounds
\* Largest number of vertices along one logical axis.
MaxNv == 3

\* Modulus of std::size_t arithmetic.  The program's modulus is 2^64; it is
\* scaled down to a value far above every id the bounded grids produce, so
\* that a wrapped value (for instance 0 - 1) is rejected by the same range
\* checks and survives the same number of increments as with 2^64.
SizeMod == 65536

\* --------------------------------------------------------- size_t arithmetic
\* The value of an unsigned expression.
USize(x) == x % SizeMod

\* ------------------------------------------------------- double arithmetic
RECURSIVE GCD(_, _)
GCD(a, b) == IF b = 0 THEN a ELSE GCD(b, a % b)

Abs(x) == IF x < 0 THEN -x ELSE x

\* The non-finite value.
NaN == <<0, 0>>

IsFinite(a) == a[2] # 0

\* The rational n/d in lowest terms; non-finite when d = 0.
Rat(n, d) ==
    IF d = 0 THEN NaN
    ELSE LET g == GCD(Abs(n), Abs(d))
             s == IF d < 0 THEN -1 ELSE 1
         IN  <<(s * n) \div g, (s * d) \div g>>

\* An integer as a double.
Num(n) == <<n, 1>>

RAdd(a, b) ==
    IF ~IsFinite(a) \/ ~IsFinite(b) THEN NaN
    ELSE Rat(a[1] * b[2] + b[1] * a[2], a[2] * b[2])

RNeg(a) == IF ~IsFinite(a) THEN NaN ELSE <<-a[1], a[2]>>

RSub(a, b) == RAdd(a, RNeg(b))

RMul(a, b) ==
    IF ~IsFinite(a) \/ ~IsFinite(b) THEN NaN
    ELSE Rat(a[1] * b[1], a[2] * b[2])

\* a / b; a division by zero is not finite.
RDiv(a, b) ==
    IF ~IsFinite(a) \/ ~IsFinite(b) \/ b[1] = 0 THEN NaN
    ELSE Rat(a[1] * b[2], a[2] * b[1])

RLess(a, b) == IsFinite(a) /\ IsFinite(b) /\ a[1] * b[2] < b[1] * a[2]

\* std::abs
RAbs(a) == IF ~IsFinite(a) THEN NaN ELSE <<Abs(a[1]), a[2]>>

\* std::max(a, b): (a < b) ? b : a
RMax(a, b) == IF RLess(a, b) THEN b ELSE a

\* The exact integer square root of a perfect square.
ISqrt(n) == CHOOSE r \in 0..n : r * r = n

\* std::sqrt, exact on the squares of rationals (the only arguments the
\* bounded inputs produce); the root of a negative number is not finite.
RSqrt(a) ==
    IF ~IsFinite(a) \/ a[1] < 0 THEN NaN
    ELSE <<ISqrt(a[1]), ISqrt(a[2])>>

Half == <<1, 2>>

\* vector2 / vector4 arithmetic (blaze::StaticVector<double, N>).
VAdd(a, b) == [k \in DOMAIN a |-> RAdd(a[k], b[k])]
VSub(a, b) == [k \in DOMAIN a |-> RSub(a[k], b[k])]
VScale(s, a) == [k \in DOMAIN a |-> RMul(s, a[k])]
Zero2 == <<Num(0), Num(0)>>
Zero4 == <<Num(0), Num(0), Num(0), Num(0)>>

\* cross2d(x, y) = x[0]*y[1] - x[1]*y[0]
cross2d(x, y) == RSub(RMul(x[1], y[2]), RMul(x[2], y[1]))

\* ------------------------------------------------------------------ state
VARIABLES
    checked,                 \* TRUE: check_precondition throws; FALSE: NDEBUG
    size_vertex_,            \* structured_grid::size_vertex_; <<0, 0>>: no grid
    vertices_,               \* structured_grid::vertices_
    cell_volumes_,           \* structured_grid::cell_volumes_
    iface_areas_,            \* structured_grid::iface_areas_
    jface_areas_,            \* structured_grid::jface_areas_
    specific_heat_ratio_,    \* perfect_gas::specific_heat_ratio_
    specific_gas_constant_,  \* perfect_gas::specific_gas_constant_
    freestream_,             \* euler::freestream_
    fv_built,                \* a finite_volume assembler exists
    inverse_volumes_,        \* finite_volume::inverse_volumes_
    U,                       \* the state field given to compute_rhs
    R,                       \* the residual accumulator of compute_rhs
    result,                  \* the residual compute_rhs returned; <<>>: none
    pc,                      \* where the program is
    sl,                      \* the slice of the range being looped over
    range_,                  \* the range2d object of the running loop
    current_,                \* range2d::iterator::current_
    count_until_jump_,       \* range2d::iterator::count_until_jump_
    visited,                 \* ids the running loop dereferenced, in order
    err,                     \* what() of the precondition_error thrown
    ret,                     \* the outcome of the last call made on the API
    integrator,              \* the integrator integrate<> is instantiated with
    nsteps_,                 \* nsteps of integrate / of main
    time_,                   \* t of integrate
    dt_,                     \* dt of integrate
    x_,                      \* the state x integrate owns and update changes
    rhs_,                    \* rhs1, rhs2, ... of the running update
    calls,                   \* the (t, x) of every compute_rhs call, in order
    updates,                 \* the (dt, t, x) of every update call, in order
    n_,                      \* the loop counter n of main
    cout_                    \* the lines main has printed

grid_vars == <<size_vertex_, vertices_, cell_volumes_, iface_areas_, jface_areas_>>
gas_vars == <<specific_heat_ratio_, specific_gas_constant_, freestream_>>
fv_vars == <<fv_built, inverse_volumes_>>
rhs_vars == <<U, R, result>>
loop_vars == <<sl, range_, current_, count_until_jump_, visited>>
ode_vars == <<integrator, nsteps_, time_, dt_, x_, rhs_, calls, updates>>
main_vars == <<n_, cout_>>
drv_vars == <<ode_vars, main_vars>>
vars ==
    <<checked, grid_vars, gas_vars, fv_vars, rhs_vars, pc, loop_vars, err, ret,
      drv_vars>>

\* ------------------------------------------------------------ grid topology
\* The member initializers of the constructor; nv is size_vertex_.
size_cell(nv) == <<USize(nv[1] - 1), USize(nv[2] - 1)>>
size_iface(nv) == <<nv[1], USize(nv[2] - 1)>>
size_jface(nv) == <<USize(nv[1] - 1), nv[2]>>

num_vertex(nv) == USize(nv[1] * nv[2])
num_cell(nv) == USize(size_cell(nv)[1] * size_cell(nv)[2])
num_iface(nv) == USize(size_iface(nv)[1] * size_iface(nv)[2])
num_jface(nv) == USize(size_jface(nv)[1] * size_jface(nv)[2])

\* The logical size of an element kind.
SizeOf(nv, kind) ==
    CASE kind = "vertex" -> nv
      [] kind = "cell" -> size_cell(nv)
      [] kind = "iface" -> size_iface(nv)
      [] kind = "jface" -> size_jface(nv)

\* compute_coordinates: the preconditions, and the value returned when they
\* hold or are compiled out.
compute_coordinates_ok(id, size) == id < USize(size[1] * size[2])

compute_coordinates(id, size) ==
    LET i == id \div size[2]
        j == USize(id - i * size[2])
    IN  <<i, j>>

\* A compute_id that checks only the j index.
compute_id_ok_j_only(coords, size) == coords[2] < size[2]

\* compute_id: the preconditions, and the value returned.
compute_id_ok(coords, size) == coords[1] < size[1] /\ coords[2] < size[2]

compute_id(coords, size) == USize(coords[1] * size[2] + coords[2])

\* what() of the precondition of compute_id that fails first.
compute_id_what(coords, size) ==
    IF ~(coords[1] < size[1]) THEN "i-index is out of range."
                              ELSE "j-index is out of range."

compute_vertex_id(nv, coords) == compute_id(coords, nv)
\* A cell id computed with the vertex extent.
compute_cell_id_vertex_size(nv, coords) == compute_id(coords, nv)
compute_cell_id(nv, coords) == compute_id(coords, size_cell(nv))
compute_iface_id(nv, coords) == compute_id(coords, size_iface(nv))
compute_jface_id(nv, coords) == compute_id(coords, size_jface(nv))

\* ----------------------------------------------------------------- handles
\* An i-face whose neighbour lookup shifts by n instead of n - 1.
iface_cell_coords_unshifted(nv, id, n) ==
    LET c == compute_coordinates(id, size_iface(nv))
    IN  <<USize(c[1] + n), c[2]>>

\* iface_handle::cell(n): the coordinates handed to compute_cell_id.
iface_cell_coords(nv, id, n) ==
    LET c == compute_coordinates(id, size_iface(nv))
    IN  <<USize(c[1] + USize(n - 1)), c[2]>>

iface_cell_ok(nv, id, n) ==
    /\ n < 2
    /\ compute_coordinates_ok(id, size_iface(nv))
    /\ compute_id_ok(iface_cell_coords(nv, id, n), size_cell(nv))

\* iface_handle::cell(n).id()
iface_cell(nv, id, n) == compute_cell_id(nv, iface_cell_coords(nv, id, n))

\* jface_handle::cell(n): the coordinates handed to compute_cell_id.
jface_cell_coords(nv, id, n) ==
    LET c == compute_coordinates(id, size_jface(nv))
    IN  <<c[1], USize(c[2] + USize(n - 1))>>

jface_cell_ok(nv, id, n) ==
    /\ n < 2
    /\ compute_coordinates_ok(id, size_jface(nv))
    /\ compute_id_ok(jface_cell_coords(nv, id, n), size_cell(nv))

\* jface_handle::cell(n).id()
jface_cell(nv, id, n) == compute_cell_id(nv, jface_cell_coords(nv, id, n))

\* T::cell(n) of a face handle of either kind.
face_cell(nv, kind, id, n) ==
    IF kind = "iface" THEN iface_cell(nv, id, n) ELSE jface_cell(nv, id, n)

face_cell_ok(nv, kind, id, n) ==
    IF kind = "iface" THEN iface_cell_ok(nv, id, n) ELSE jface_cell_ok(nv, id, n)

\* structured_grid::vertex(i, j) read from the vertex array verts.
vertex(nv, verts, i, j) == verts[compute_vertex_id(nv, <<i, j>>) + 1]

\* iface_handle::vertex(n) = parent_.vertex(i, j + 1 - n)
iface_vertex(nv, verts, id, n) ==
    LET c == compute_coordinates(id, size_iface(nv))
    IN  vertex(nv, verts, c[1], USize(c[2] + 1 - n))

\* jface_handle::vertex(n) = parent_.vertex(i + n, j)
jface_vertex(nv, verts, id, n) ==
    LET c == compute_coordinates(id, size_jface(nv))
    IN  vertex(nv, verts, USize(c[1] + n), c[2])

\* A cell whose two i-faces are both its min-i face.
cell_iface_unshifted(nv, id, n) ==
    compute_iface_id(nv, compute_coordinates(id, size_cell(nv)))

\* cell_handle::iface(n).id() = parent_.iface(i + n, j)
cell_iface(nv, id, n) ==
    LET c == compute_coordinates(id, size_cell(nv))
    IN  compute_iface_id(nv, <<USize(c[1] + n), c[2]>>)

\* A cell whose two j-faces are both its min-j face.
cell_jface_unshifted(nv, id, n) ==
    compute_jface_id(nv, compute_coordinates(id, size_cell(nv)))

\* cell_handle::jface(n).id() = parent_.jface(i, j + n)
cell_jface(nv, id, n) ==
    LET c == compute_coordinates(id, size_cell(nv))
    IN  compute_jface_id(nv, <<c[1], USize(c[2] + n)>>)

\* cell_handle::vertex(n)
cell_vertex(nv, verts, id, n) ==
    LET c == compute_coordinates(id, size_cell(nv))
    IN  CASE n = 0 -> vertex(nv, verts, c[1], c[2])
          [] n = 1 -> vertex(nv, verts, USize(c[1] + 1), c[2])
          [] n = 2 -> vertex(nv, verts, USize(c[1] + 1), USize(c[2] + 1))
          [] OTHER -> vertex(nv, verts, c[1], USize(c[2] + 1))

\* ------------------------------------------------------------------ range2d
\* The preconditions of the range2d constructor: the two compute_id calls of
\* the member initializers, then the four checks of the body.
range2d_ok(irange, jrange, size) ==
    /\ compute_id_ok(<<irange[1], jrange[1]>>, size)
    /\ compute_id_ok(<<USize(irange[2] - 1), jrange[1]>>, size)
    /\ irange[1] < irange[2]
    /\ irange[2] <= size[1]
    /\ jrange[1] < jrange[2]
    /\ jrange[2] <= size[2]

\* what() of the first precondition of the range2d constructor that fails.
range2d_what(irange, jrange, size) ==
    CASE ~(irange[1] < size[1]) -> "i-index is out of range."
      [] ~(jrange[1] < size[2]) -> "j-index is out of range."
      [] ~(USize(irange[2] - 1) < size[1]) -> "i-index is out of range."
      [] ~(irange[1] < irange[2]) -> "irange must be strictly sorted"
      [] ~(irange[2] <= size[1]) -> "irange exceeds grid size"
      [] ~(jrange[1] < jrange[2]) -> "jrange must be strictly sorted"
      [] OTHER -> "jrange exceeds grid size"

\* Mutant of range2d_end: one past the last element of the last row, that is
\* id(i_hi-1, j_lo) plus the width of the slice.
range2d_end_slice_width(irange, jrange, size) ==
    USize(compute_id(<<USize(irange[2] - 1), jrange[1]>>, size)
          + USize(jrange[2] - jrange[1]))

\* end_ as the constructor computes it.
range2d_end(irange, jrange, size) ==
    USize(compute_id(<<USize(irange[2] - 1), jrange[1]>>, size) + size[2])

\* The members of the range2d object the constructor builds.
range2d(irange, jrange, size) ==
    [start_    |-> compute_id(<<irange[1], jrange[1]>>, size),
     end_      |-> range2d_end(irange, jrange, size),
     interval_ |-> USize(jrange[2] - jrange[1]),
     offset_   |-> USize(size[2] - USize(jrange[2] - jrange[1]))]

\* The iterator begin() / end() return: <<current_, count_until_jump_>>.
begin(rng) == <<rng.start_, rng.interval_>>
\* An end() whose countdown is that of the last element of a row.
end_countdown_exhausted(rng) == <<rng.end_, 1>>

end(rng) == <<rng.end_, rng.interval_>>

\* Mutant of increment: the countdown is reset but the gap is not skipped.
increment_no_jump(rng, it) ==
    LET cur == USize(it[1] + 1)
        cnt == USize(it[2] - 1)
    IN  IF cnt = 0 THEN <<cur, rng.interval_>> ELSE <<cur, cnt>>

\* iterator::operator++ on <<current_, count_until_jump_>>.
increment(rng, it) ==
    LET cur == USize(it[1] + 1)
        cnt == USize(it[2] - 1)
    IN  IF cnt = 0
        THEN <<USize(cur + rng.offset_), rng.interval_>>
        ELSE <<cur, cnt>>

\* Mutant of decrement: the jump is taken when the countdown is 1, as if the
\* test came after the countdown was advanced.
decrement_late_jump(rng, it) ==
    LET jump == it[2] = 1
        cnt == IF jump THEN 0 ELSE it[2]
        cur == IF jump THEN USize(it[1] - rng.offset_) ELSE it[1]
    IN  <<USize(cur - 1), USize(cnt + 1)>>

\* iterator::operator-- on <<current_, count_until_jump_>>.
decrement(rng, it) ==
    LET jump == it[2] = rng.interval_
        cnt == IF jump THEN 0 ELSE it[2]
        cur == IF jump THEN USize(it[1] - rng.offset_) ELSE it[1]
    IN  <<USize(cur - 1), USize(cnt + 1)>>

\* The named ranges of structured_grid, as the arguments each hands to the
\* range2d constructor.
RangeNames ==
    {"cells", "ifaces", "min_ifaces", "max_ifaces", "interior_ifaces",
     "jfaces", "min_jfaces", "max_jfaces", "interior_jfaces"}

NamedRange(nv, name) ==
    LET sc == size_cell(nv)
        si == size_iface(nv)
        sj == size_jface(nv)
    IN  CASE name = "cells" ->
               [name |-> name, kind |-> "cell",
                irange |-> <<0, sc[1]>>, jrange |-> <<0, sc[2]>>]
          [] name = "ifaces" ->
               [name |-> name, kind |-> "iface",
                irange |-> <<0, si[1]>>, jrange |-> <<0, si[2]>>]
          [] name = "min_ifaces" ->
               [name |-> name, kind |-> "iface",
                irange |-> <<0, 1>>, jrange |-> <<0, si[2]>>]
          [] name = "max_ifaces" ->
               [name |-> name, kind |-> "iface",
                irange |-> <<USize(si[1] - 1), si[1]>>, jrange |-> <<0, si[2]>>]
          [] name = "interior_ifaces" ->
               [name |-> name, kind |-> "iface",
                irange |-> <<1, USize(si[1] - 1)>>, jrange |-> <<0, si[2]>>]
          [] name = "jfaces" ->
               [name |-> name, kind |-> "jface",
                irange |-> <<0, sj[1]>>, jrange |-> <<0, sj[2]>>]
          [] name = "min_jfaces" ->
               [name |-> name, kind |-> "jface",
                irange |-> <<0, sj[1]>>, jrange |-> <<0, 1>>]
          [] name = "max_jfaces" ->
               [name |-> name, kind |-> "jface",
                irange |-> <<0, sj[1]>>, jrange |-> <<USize(sj[2] - 1), sj[2]>>]
          [] name = "interior_jfaces" ->
               [name |-> name, kind |-> "jface",
                irange |-> <<0, sj[1]>>, jrange |-> <<1, USize(sj[2] - 1)>>]

\* The range2d object of a slice.
RangeOf(nv, s) == range2d(s.irange, s.jrange, SizeOf(nv, s.kind))

RangeOk(nv, s) == range2d_ok(s.irange, s.jrange, SizeOf(nv, s.kind))

RangeWhat(nv, s) == range2d_what(s.irange, s.jrange, SizeOf(nv, s.kind))

\* The ids a range-based for loop over rng dereferences, in order, from the
\* iterator it; fuel bounds the recursion.
RECURSIVE loop_ids(_, _, _)
loop_ids(rng, it, fuel) ==
    IF it[1] = rng.end_ \/ fuel = 0 THEN <<>>
    ELSE <<it[1]>> \o loop_ids(rng, increment(rng, it), fuel - 1)

\* for (const auto& e : range): the ids visited.
for_each(nv, s) ==
    LET size == SizeOf(nv, s.kind)
    IN  loop_ids(RangeOf(nv, s), begin(RangeOf(nv, s)), size[1] * size[2])

\* ------------------------------------------------------------ grid geometry
\* The area vector both loops of init_face_areas push for a face with
\* vertices v0, v1: { -(v1[1] - v0[1]), v1[0] - v0[0] }.
\* An area vector along the face instead of across it.
face_area_unrotated(v0, v1) == VSub(v1, v0)

face_area(v0, v1) == <<RNeg(RSub(v1[2], v0[2])), RSub(v1[1], v0[1])>>

\* init_face_areas: iface_areas_ after the loop over ifaces().
init_iface_areas(nv, verts) ==
    LET ids == for_each(nv, NamedRange(nv, "ifaces"))
    IN  [k \in 1..Len(ids) |->
            face_area(iface_vertex(nv, verts, ids[k], 0),
                      iface_vertex(nv, verts, ids[k], 1))]

\* init_face_areas: jface_areas_ after the loop over jfaces().
init_jface_areas(nv, verts) ==
    LET ids == for_each(nv, NamedRange(nv, "jfaces"))
    IN  [k \in 1..Len(ids) |->
            face_area(jface_vertex(nv, verts, ids[k], 0),
                      jface_vertex(nv, verts, ids[k], 1))]

\* A volume measured from the origin on one of its two triangles.
quad_volume_about_origin(v0, v1, v2, v3) ==
    RMul(Half, RAdd(cross2d(v1, v3), cross2d(VSub(v3, v2), VSub(v1, v2))))

\* The volume init_cell_volumes pushes for a cell with corners v0..v3.
quad_volume(v0, v1, v2, v3) ==
    RMul(Half, RAdd(cross2d(VSub(v1, v0), VSub(v3, v0)),
                    cross2d(VSub(v3, v2), VSub(v1, v2))))

\* init_cell_volumes: cell_volumes_ after the loop over cells().
init_cell_volumes(nv, verts) ==
    LET ids == for_each(nv, NamedRange(nv, "cells"))
    IN  [k \in 1..Len(ids) |->
            quad_volume(cell_vertex(nv, verts, ids[k], 0),
                        cell_vertex(nv, verts, ids[k], 1),
                        cell_vertex(nv, verts, ids[k], 2),
                        cell_vertex(nv, verts, ids[k], 3))]

\* The vertex array make_cartesian_grid builds (i outer, j inner).
cartesian_vertices(xrange, yrange, size) ==
    LET dx == RDiv(RSub(xrange[2], xrange[1]), Num(USize(size[1] - 1)))
        dy == RDiv(RSub(yrange[2], yrange[1]), Num(USize(size[2] - 1)))
    IN  [k \in 1..(size[1] * size[2]) |->
            LET i == (k - 1) \div size[2]
                j == (k - 1) % size[2]
            IN  <<RAdd(xrange[1], RMul(Num(i), dx)),
                  RAdd(yrange[1], RMul(Num(j), dy))>>]

\* --------------------------------------------------------------- gas model
\* perfect_gas::compute_energy(T) = R * T / (g - 1)
compute_energy(T) ==
    RDiv(RMul(specific_gas_constant_, T), RSub(specific_heat_ratio_, Num(1)))

\* perfect_gas::compute_density(p, T) = p / (R * T)
compute_density(p, T) == RDiv(p, RMul(specific_gas_constant_, T))

\* perfect_gas::compute_pressure(e, rho) = (g - 1) * rho * e
compute_pressure(e, rho) ==
    RMul(RMul(RSub(specific_heat_ratio_, Num(1)), rho), e)

\* perfect_gas::compute_sound_speed(e, rho) = sqrt(g * (g - 1) * e)
compute_sound_speed(e, rho) ==
    RSqrt(RMul(RMul(specific_heat_ratio_, RSub(specific_heat_ratio_, Num(1))), e))

\* ------------------------------------------------------------ euler physics
\* The primitive state every flux function recovers from q.
prim_u(q) == RDiv(q[2], q[1])
prim_v(q) == RDiv(q[3], q[1])
prim_e(q) ==
    RSub(RDiv(q[4], q[1]),
         RMul(Half, RAdd(RMul(prim_u(q), prim_u(q)), RMul(prim_v(q), prim_v(q)))))

\* spectral_radius(q, n) = c + |u * n[0] + u * n[1]|
spectral_radius(q, n) ==
    LET u == prim_u(q)
        c == compute_sound_speed(prim_e(q), q[1])
    IN  RAdd(c, RAbs(RAdd(RMul(u, n[1]), RMul(u, n[2]))))

\* euler::compute_flux(q, n)
compute_flux(q, n) ==
    LET u == prim_u(q)
        v == prim_v(q)
        p == compute_pressure(prim_e(q), q[1])
        un == RAdd(RMul(u, n[1]), RMul(v, n[2]))
    IN  <<RMul(un, q[1]),
          RAdd(RMul(un, q[2]), RMul(p, n[1])),
          RAdd(RMul(un, q[3]), RMul(p, n[2])),
          RMul(un, RAdd(q[4], p))>>

\* A far-field flux taken from the state handed in.
compute_freestream_flux_of_state(q, n) == compute_flux(q, n)

\* euler::compute_freestream_flux(q, n)
compute_freestream_flux(q, n) == compute_flux(freestream_, n)

\* A wall that lets the convective flux through.
compute_wall_flux_convective(q, n) == compute_flux(q, n)

\* euler::compute_wall_flux(q, n)
compute_wall_flux(q, n) ==
    LET p == compute_pressure(prim_e(q), q[1])
    IN  <<Num(0), RMul(p, n[1]), RMul(p, n[2]), Num(0)>>

\* A flux that is the sum of the two sides, not their mean.
compute_jump_flux_unhalved(ql, qr, n) ==
    LET lam == RMax(spectral_radius(ql, n), spectral_radius(qr, n))
    IN  VSub(VAdd(compute_flux(ql, n), compute_flux(qr, n)),
             VScale(lam, VSub(ql, qr)))

\* euler::compute_jump_flux(ql, qr, n) = 0.5 * (fl + fr - lam * (ql - qr))
compute_jump_flux(ql, qr, n) ==
    LET lam == RMax(spectral_radius(ql, n), spectral_radius(qr, n))
        fl == compute_flux(ql, n)
        fr == compute_flux(qr, n)
    IN  VScale(Half, VSub(VAdd(fl, fr), VScale(lam, VSub(ql, qr))))

\* The conservative state euler::set_freestream(p, T, vx, vy) stores.
freestream_state(p, T, vx, vy) ==
    LET rho == compute_density(p, T)
        E == RAdd(compute_energy(T),
                  RMul(Half, RAdd(RMul(vx, vx), RMul(vy, vy))))
    IN  <<rho, RMul(rho, vx), RMul(rho, vy), RMul(rho, E)>>

\* ------------------------------------------------------------------ inputs
\* Grid sizes the constructor accepts.
GridSizes == {<<a, b>> : a, b \in 2..MaxNv}

\* Arguments of make_cartesian_grid.  The builder tests only the size, so a
\* range given from its upper to its lower end is among them.
XRanges == {<<Num(0), Num(2)>>, <<Num(1), Num(5)>>, <<Num(2), Num(0)>>}
YRanges == {<<Num(0), Num(2)>>}

\* Vertex arrays handed to the constructor directly: the unit-spaced
\* Cartesian array with vertex (1, 1) displaced by d.  The first displacement
\* skews the cells around it, the second moves it onto vertex (0, 0) and so
\* collapses cell (0, 0) to volume 0, the third moves it onto vertex (0, 1)
\* and so collapses j-face (0, 1) to a point, the fourth puts it where its
\* coordinates have no finite decimal expansion.
Displacements ==
    {<<Rat(1, 2), Rat(1, 2)>>, <<Num(-1), Num(-1)>>, <<Num(-1), Num(0)>>,
     <<Rat(1, 3), Rat(-1, 3)>>}

displaced_vertices(size, d) ==
    LET base == cartesian_vertices(<<Num(0), Num(size[1] - 1)>>,
                                   <<Num(0), Num(size[2] - 1)>>, size)
        k == compute_id(<<1, 1>>, size) + 1
    IN  [base EXCEPT ![k] = VAdd(@, d)]

\* Conservative states (rho, rho u, rho v, rho E) with positive density and
\* an internal energy whose sound speed is rational at g = 1.4.
States ==
    <<  <<Num(1), Num(2), Num(0), Num(16)>>,     \* u = 2, v = 0, e = 14
        <<Num(2), Num(0), Num(2), Num(8)>>,      \* u = 0, v = 1, e = 7/2
        <<Num(1), Num(1), Num(3), Num(19)>>  >>  \* u = 1, v = 3, e = 14

StateSet == {States[k] : k \in DOMAIN States}

\* State fields of n cells: cell id c holds States[(a*c + b) mod 3].
StateFields(n) ==
    {[k \in 1..n |-> States[((a * (k - 1) + b) % Len(States)) + 1]] :
        a \in 0..1, b \in 0..(Len(States) - 1)}

\* Arguments (p, T, vx, vy) of set_freestream; T is chosen so that R * T = 2
\* at the default gas constant.
FreestreamArgs ==
    {<<Num(2), Rat(1000, 143529), Num(2), Num(0)>>,
     <<Num(4), Rat(1000, 143529), Num(0), Num(1)>>,
     <<Rat(28, 5), Rat(2800, 143529), Num(2), Num(0)>>}

\* The loops of compute_rhs, in program order.
RhsLoops ==
    <<"interior_ifaces", "interior_jfaces", "min_ifaces", "max_ifaces",
      "min_jfaces", "max_jfaces">>

RhsLoopSet == {RhsLoops[k] : k \in 1..Len(RhsLoops)}

NoSlice == [name |-> "none", kind |-> "none", irange |-> <<0, 0>>, jrange |-> <<0, 0>>]
NoRange == [start_ |-> 0, end_ |-> 0, interval_ |-> 0, offset_ |-> 0]

\* The outcome of a call: the function, its arguments, whether it threw a
\* precondition_error and with which what(), and the value it returned.
NoCall == [op |-> "none", args |-> <<>>, threw |-> FALSE, what |-> "", value |-> <<>>]
Thrown(op, args, what) ==
    [op |-> op, args |-> args, threw |-> TRUE, what |-> what, value |-> <<>>]
Returned(op, args, value) ==
    [op |-> op, args |-> args, threw |-> FALSE, what |-> "", value |-> value]

\* -------------------------------------------------------------------- Init
\* Static initialization: default gas properties, a zero freestream, no grid.
Init ==
    /\ checked \in BOOLEAN
    /\ size_vertex_ = <<0, 0>>
    /\ vertices_ = <<>>
    /\ cell_volumes_ = <<>>
    /\ iface_areas_ = <<>>
    /\ jface_areas_ = <<>>
    /\ specific_heat_ratio_ = Rat(7, 5)
    /\ specific_gas_constant_ = Rat(143529, 500)
    /\ freestream_ = Zero4
    /\ fv_built = FALSE
    /\ inverse_volumes_ = <<>>
    /\ U = <<>>
    /\ R = <<>>
    /\ result = <<>>
    /\ pc = "start"
    /\ sl = NoSlice
    /\ range_ = NoRange
    /\ current_ = 0
    /\ count_until_jump_ = 0
    /\ visited = <<>>
    /\ err = ""
    /\ ret = NoCall
    /\ integrator = "none"
    /\ nsteps_ = 0
    /\ time_ = Num(0)
    /\ dt_ = Num(0)
    /\ x_ = <<>>
    /\ rhs_ = <<>>
    /\ calls = <<>>
    /\ updates = <<>>
    /\ n_ = 0
    /\ cout_ = <<>>

\* ------------------------------------------------------- grid construction
\* structured_grid(size, vertices) for arguments that pass its checks:
\* stores the vertices and runs update_dependent_members.
construct_grid(size, verts) ==
    /\ size_vertex_' = size
    /\ vertices_' = verts
    /\ iface_areas_' = init_iface_areas(size, verts)
    /\ jface_areas_' = init_jface_areas(size, verts)
    /\ cell_volumes_' = init_cell_volumes(size, verts)
    /\ pc' = "ready"
    /\ UNCHANGED <<ret, checked, drv_vars, gas_vars, fv_vars, rhs_vars, loop_vars, err>>

make_cartesian_grid ==
    /\ pc = "start"
    /\ \E size \in GridSizes, xrange \in XRanges, yrange \in YRanges :
          construct_grid(size, cartesian_vertices(xrange, yrange, size))

structured_grid_ctor ==
    /\ pc = "start"
    /\ \E size \in GridSizes, d \in Displacements :
          construct_grid(size, displaced_vertices(size, d))

\* ------------------------------------------------- range-based for loops
\* The loop header: builds the range2d of slice s and takes begin().  In a
\* checked build a failed precondition of the constructor throws.
enter_loop(s, where) ==
    IF checked /\ ~RangeOk(size_vertex_, s)
    THEN /\ pc' = "threw"
         /\ err' = RangeWhat(size_vertex_, s)
         /\ sl' = s
         /\ UNCHANGED <<range_, current_, count_until_jump_, visited>>
    ELSE /\ pc' = where
         /\ sl' = s
         /\ range_' = RangeOf(size_vertex_, s)
         /\ current_' = begin(RangeOf(size_vertex_, s))[1]
         /\ count_until_jump_' = begin(RangeOf(size_vertex_, s))[2]
         /\ visited' = <<>>
         /\ err' = err

\* ++it at the end of a loop body that dereferenced *it.
advance ==
    /\ visited' = Append(visited, current_)
    /\ current_' = increment(range_, <<current_, count_until_jump_>>)[1]
    /\ count_until_jump_' = increment(range_, <<current_, count_until_jump_>>)[2]
    /\ UNCHANGED <<sl, range_>>

\* Every slice the range2d constructor accepts, for each element kind.
ValidSlices ==
    {[name |-> "range2d", kind |-> k, irange |-> <<i0, i1>>, jrange |-> <<j0, j1>>] :
        k \in {"cell", "iface", "jface"},
        i0 \in 0..MaxNv, i1 \in 0..MaxNv, j0 \in 0..MaxNv, j1 \in 0..MaxNv}

Slices(nv) ==
    {s \in ValidSlices : RangeOk(nv, s)} \cup {NamedRange(nv, n) : n \in RangeNames}

\* for (const auto& e : range) { *it; }
for_begin ==
    /\ pc = "ready"
    /\ \E s \in Slices(size_vertex_) : enter_loop(s, "for")
    /\ UNCHANGED <<ret, checked, drv_vars, grid_vars, gas_vars, fv_vars, rhs_vars>>

for_step ==
    /\ pc = "for"
    /\ current_ # range_.end_
    /\ advance
    /\ UNCHANGED <<ret, checked, drv_vars, grid_vars, gas_vars, fv_vars, rhs_vars, pc, err>>

for_end ==
    /\ pc = "for"
    /\ current_ = range_.end_
    /\ pc' = "for_done"
    /\ UNCHANGED <<ret, checked, drv_vars, grid_vars, gas_vars, fv_vars, rhs_vars, loop_vars, err>>

\* auto it = range.end(); while (it != range.begin()) { --it; *it; }
rev_begin ==
    /\ pc = "ready"
    /\ \E s \in Slices(size_vertex_) :
          /\ RangeOk(size_vertex_, s)
          /\ sl' = s
          /\ range_' = RangeOf(size_vertex_, s)
          /\ current_' = end(RangeOf(size_vertex_, s))[1]
          /\ count_until_jump_' = end(RangeOf(size_vertex_, s))[2]
    /\ visited' = <<>>
    /\ pc' = "rev"
    /\ UNCHANGED <<ret, checked, drv_vars, grid_vars, gas_vars, fv_vars, rhs_vars, err>>

rev_step ==
    /\ pc = "rev"
    /\ current_ # range_.start_
    /\ current_' = decrement(range_, <<current_, count_until_jump_>>)[1]
    /\ count_until_jump_' = decrement(range_, <<current_, count_until_jump_>>)[2]
    /\ visited' = Append(visited, current_')
    /\ UNCHANGED <<ret, checked, drv_vars, grid_vars, gas_vars, fv_vars, rhs_vars, pc, sl, range_, err>>

rev_end ==
    /\ pc = "rev"
    /\ current_ = range_.start_
    /\ pc' = "rev_done"
    /\ UNCHANGED <<ret, checked, drv_vars, grid_vars, gas_vars, fv_vars, rhs_vars, loop_vars, err>>

\* The loop's range and iterator go out of scope.
leave_loop ==
    /\ pc \in {"for_done", "rev_done"}
    /\ pc' = "ready"
    /\ sl' = NoSlice
    /\ range_' = NoRange
    /\ current_' = 0
    /\ count_until_jump_' = 0
    /\ visited' = <<>>
    /\ UNCHANGED <<ret, checked, drv_vars, grid_vars, gas_vars, fv_vars, rhs_vars, err>>

\* A client that moves one iterator both ways: auto it = range.begin() or
\* range.end(), then ++it and --it in any order between the two.  visited
\* holds the id the iterator has just left (nothing when it left end()).
walk_begin ==
    /\ pc = "ready"
    /\ \E s \in Slices(size_vertex_) :
          /\ RangeOk(size_vertex_, s)
          /\ sl' = s
          /\ range_' = RangeOf(size_vertex_, s)
          /\ \E it \in {begin(RangeOf(size_vertex_, s)), end(RangeOf(size_vertex_, s))} :
                /\ current_' = it[1]
                /\ count_until_jump_' = it[2]
    /\ visited' = <<>>
    /\ pc' = "walk"
    /\ UNCHANGED <<ret, checked, drv_vars, grid_vars, gas_vars, fv_vars, rhs_vars, err>>

walk_increment ==
    /\ pc = "walk"
    /\ current_ # range_.end_
    /\ current_' = increment(range_, <<current_, count_until_jump_>>)[1]
    /\ count_until_jump_' = increment(range_, <<current_, count_until_jump_>>)[2]
    /\ visited' = <<current_>>
    /\ UNCHANGED <<ret, checked, drv_vars, grid_vars, gas_vars, fv_vars, rhs_vars, pc, sl, range_, err>>

walk_decrement ==
    /\ pc = "walk"
    /\ current_ # range_.start_
    /\ current_' = decrement(range_, <<current_, count_until_jump_>>)[1]
    /\ count_until_jump_' = decrement(range_, <<current_, count_until_jump_>>)[2]
    /\ visited' = IF current_ = range_.end_ THEN <<>> ELSE <<current_>>
    /\ UNCHANGED <<ret, checked, drv_vars, grid_vars, gas_vars, fv_vars, rhs_vars, pc, sl, range_, err>>

\* The iterator and its range go out of scope.
walk_end ==
    /\ pc = "walk"
    /\ pc' = "ready"
    /\ sl' = NoSlice
    /\ range_' = NoRange
    /\ current_' = 0
    /\ count_until_jump_' = 0
    /\ visited' = <<>>
    /\ UNCHANGED <<ret, checked, drv_vars, grid_vars, gas_vars, fv_vars, rhs_vars, err>>

NextRange ==
    \/ walk_begin
    \/ walk_increment
    \/ walk_decrement
    \/ walk_end
    \/ make_cartesian_grid
    \/ structured_grid_ctor
    \/ for_begin
    \/ for_step
    \/ for_end
    \/ rev_begin
    \/ rev_step
    \/ rev_end
    \/ leave_loop

\* The grid and its ranges alone.
SpecRange == Init /\ [][NextRange]_vars

\* ----------------------------------------------------------- finite_volume
\* update_inverse_volumes: inverse_volumes_ after the loop over cells(), which
\* stores 1.0 / cell.volume() at the position of each cell visited.
update_inverse_volumes(nv, volumes) ==
    LET ids == for_each(nv, NamedRange(nv, "cells"))
    IN  [k \in 1..Len(ids) |-> RDiv(Num(1), volumes[ids[k] + 1])]

\* The constructor of the assembler: it binds the grid and the cache of
\* inverse volumes is filled by update_inverse_volumes, the only code that
\* writes it.  Neither the constructor nor update_inverse_volumes looks at
\* the sign or the value of a volume.
finite_volume_ctor ==
    /\ pc = "ready"
    /\ ~fv_built
    /\ fv_built' = TRUE
    /\ inverse_volumes_' = update_inverse_volumes(size_vertex_, cell_volumes_)
    /\ UNCHANGED <<ret, checked, drv_vars, grid_vars, gas_vars, rhs_vars, pc, loop_vars, err>>

\* euler::set_freestream(p, T, vx, vy)
set_freestream ==
    /\ pc = "ready"
    /\ \E a \in FreestreamArgs : freestream_' = freestream_state(a[1], a[2], a[3], a[4])
    /\ UNCHANGED <<ret, checked, drv_vars, grid_vars, specific_heat_ratio_, specific_gas_constant_,
                   fv_vars, rhs_vars, pc, loop_vars, err>>

\* make_residual_vector: a zero residual per cell.
make_residual_vector(nv) == [k \in 1..num_cell(nv) |-> Zero4]

\* R[id] += flux / R[id] -= flux
add_at(Racc, id, flux) == [Racc EXCEPT ![id + 1] = VAdd(@, flux)]
\* A subtraction with the sign of an addition.
sub_at_added(Racc, id, flux) == [Racc EXCEPT ![id + 1] = VAdd(@, flux)]
sub_at(Racc, id, flux) == [Racc EXCEPT ![id + 1] = VSub(@, flux)]

\* f.area() of a face handle of either kind.
face_area_of(kind, id) ==
    IF kind = "iface" THEN iface_areas_[id + 1] ELSE jface_areas_[id + 1]

num_face(nv, kind) == IF kind = "iface" THEN num_iface(nv) ELSE num_jface(nv)

\* what() of the first precondition of T::cell(n) that fails.
face_cell_what(nv, kind, id, n) ==
    LET size == SizeOf(nv, kind)
        c == IF kind = "iface" THEN iface_cell_coords(nv, id, n)
                               ELSE jface_cell_coords(nv, id, n)
    IN  CASE ~(n < 2) -> "Cell index is out of range"
          [] ~compute_coordinates_ok(id, size) -> "id is out of range."
          [] ~(c[1] < size_cell(nv)[1]) -> "i-index is out of range."
          [] OTHER -> "j-index is out of range."

\* A precondition_error leaves compute_rhs.
throw(what) ==
    /\ pc' = "threw"
    /\ err' = what
    /\ UNCHANGED <<R, loop_vars>>

\* An access outside a vector that ends the process.
crash ==
    /\ pc' = "crashed"
    /\ UNCHANGED <<R, loop_vars, err>>

\* compute_rhs, up to the header of its first loop.
compute_rhs_begin ==
    /\ pc = "ready"
    /\ fv_built
    /\ \E field \in StateFields(num_cell(size_vertex_)) : U' = field
    /\ R' = make_residual_vector(size_vertex_)
    /\ result' = <<>>
    /\ enter_loop(NamedRange(size_vertex_, "interior_ifaces"), "interior_ifaces")
    /\ UNCHANGED <<ret, checked, drv_vars, grid_vars, gas_vars, fv_vars>>

\* The body of the two interior loops:
\*    left = f.cell(0).id(); right = f.cell(1).id();
\*    flux = jump_flux(U[left], U[right], f.area());
\*    R[left] -= flux; R[right] += flux;
\* In a build without checks a handle outside the grid makes the body read
\* and write outside U, R or the area vector: undefined behaviour, modelled
\* as either the end of the process or a body that reads arbitrary values
\* there and whose writes there are lost.
interior_step ==
    /\ pc \in {"interior_ifaces", "interior_jfaces"}
    /\ current_ # range_.end_
    /\ LET nv == size_vertex_
           f == current_
           left == face_cell(nv, sl.kind, f, 0)
           right == face_cell(nv, sl.kind, f, 1)
           inside(c) == c < num_cell(nv)
       IN  IF checked /\ ~face_cell_ok(nv, sl.kind, f, 0)
           THEN throw(face_cell_what(nv, sl.kind, f, 0))
           ELSE IF checked /\ ~face_cell_ok(nv, sl.kind, f, 1)
           THEN throw(face_cell_what(nv, sl.kind, f, 1))
           ELSE IF inside(left) /\ inside(right) /\ f < num_face(nv, sl.kind)
           THEN LET flux == compute_jump_flux(U[left + 1], U[right + 1],
                                              face_area_of(sl.kind, f))
                IN  /\ R' = add_at(sub_at(R, left, flux), right, flux)
                    /\ advance
                    /\ UNCHANGED <<pc, err>>
           ELSE \/ crash
                \/ \E ql \in (IF inside(left) THEN {U[left + 1]} ELSE StateSet),
                      qr \in (IF inside(right) THEN {U[right + 1]} ELSE StateSet),
                      a \in (IF f < num_face(nv, sl.kind)
                             THEN {face_area_of(sl.kind, f)} ELSE {Zero2}) :
                      LET flux == compute_jump_flux(ql, qr, a)
                          R1 == IF inside(left) THEN sub_at(R, left, flux) ELSE R
                      IN  /\ R' = IF inside(right) THEN add_at(R1, right, flux) ELSE R1
                          /\ advance
                          /\ UNCHANGED <<pc, err>>
    /\ UNCHANGED <<ret, checked, drv_vars, grid_vars, gas_vars, fv_vars, U, result>>

\* id = f.cell(1).id(); R[id] += imin_flux(U[id], f.area());
min_ifaces_step ==
    /\ pc = "min_ifaces"
    /\ current_ # range_.end_
    /\ LET id == iface_cell(size_vertex_, current_, 1)
       IN  IF checked /\ ~iface_cell_ok(size_vertex_, current_, 1)
           THEN throw(face_cell_what(size_vertex_, "iface", current_, 1))
           ELSE IF ~(id < num_cell(size_vertex_)) THEN crash
           ELSE /\ R' = add_at(R, id, compute_flux(U[id + 1], iface_areas_[current_ + 1]))
                /\ advance
                /\ UNCHANGED <<pc, err>>
    /\ UNCHANGED <<ret, checked, drv_vars, grid_vars, gas_vars, fv_vars, U, result>>

\* id = f.cell(0).id(); R[id] -= imax_flux(U[id], f.area());
max_ifaces_step ==
    /\ pc = "max_ifaces"
    /\ current_ # range_.end_
    /\ LET id == iface_cell(size_vertex_, current_, 0)
       IN  IF checked /\ ~iface_cell_ok(size_vertex_, current_, 0)
           THEN throw(face_cell_what(size_vertex_, "iface", current_, 0))
           ELSE IF ~(id < num_cell(size_vertex_)) THEN crash
           ELSE /\ R' = sub_at(R, id, compute_flux(U[id + 1], iface_areas_[current_ + 1]))
                /\ advance
                /\ UNCHANGED <<pc, err>>
    /\ UNCHANGED <<ret, checked, drv_vars, grid_vars, gas_vars, fv_vars, U, result>>

\* id = f.cell(1).id(); R[id] += jmin_flux(U[id], f.area());
min_jfaces_step ==
    /\ pc = "min_jfaces"
    /\ current_ # range_.end_
    /\ LET id == jface_cell(size_vertex_, current_, 1)
       IN  IF checked /\ ~jface_cell_ok(size_vertex_, current_, 1)
           THEN throw(face_cell_what(size_vertex_, "jface", current_, 1))
           ELSE IF ~(id < num_cell(size_vertex_)) THEN crash
           ELSE /\ R' = add_at(R, id,
                               compute_wall_flux(U[id + 1], jface_areas_[current_ + 1]))
                /\ advance
                /\ UNCHANGED <<pc, err>>
    /\ UNCHANGED <<ret, checked, drv_vars, grid_vars, gas_vars, fv_vars, U, result>>

\* A max-j loop body that adds the flux instead of subtracting it.
max_jfaces_step_added ==
    /\ pc = "max_jfaces"
    /\ current_ # range_.end_
    /\ R' = add_at(R, jface_cell(size_vertex_, current_, 0),
                   compute_freestream_flux(U[jface_cell(size_vertex_, current_, 0) + 1],
                                           jface_areas_[current_ + 1]))
    /\ advance
    /\ UNCHANGED <<ret, checked, drv_vars, grid_vars, gas_vars, fv_vars, U, result, pc, err>>

\* id = f.cell(0).id(); R[id] -= jmax_flux(U[id], f.area());
max_jfaces_step ==
    /\ pc = "max_jfaces"
    /\ current_ # range_.end_
    /\ LET id == jface_cell(size_vertex_, current_, 0)
       IN  IF checked /\ ~jface_cell_ok(size_vertex_, current_, 0)
           THEN throw(face_cell_what(size_vertex_, "jface", current_, 0))
           ELSE IF ~(id < num_cell(size_vertex_)) THEN crash
           ELSE /\ R' = sub_at(R, id,
                               compute_freestream_flux(U[id + 1],
                                                       jface_areas_[current_ + 1]))
                /\ advance
                /\ UNCHANGED <<pc, err>>
    /\ UNCHANGED <<ret, checked, drv_vars, grid_vars, gas_vars, fv_vars, U, result>>

\* One loop of compute_rhs ends and the header of the next one runs.
next_loop ==
    /\ \E k \in 1..(Len(RhsLoops) - 1) :
          /\ pc = RhsLoops[k]
          /\ current_ = range_.end_
          /\ enter_loop(NamedRange(size_vertex_, RhsLoops[k + 1]), RhsLoops[k + 1])
    /\ UNCHANGED <<ret, checked, drv_vars, grid_vars, gas_vars, fv_vars, rhs_vars>>

\* R * inverse_volumes_ (elementwise)
scale_residual(Racc, inv) == [k \in 1..Len(Racc) |-> VScale(inv[k], Racc[k])]

\* The last loop ends: return R * inverse_volumes_.
compute_rhs_return ==
    /\ pc = "max_jfaces"
    /\ current_ = range_.end_
    /\ result' = scale_residual(R, inverse_volumes_)
    /\ R' = <<>>
    /\ pc' = "ready"
    /\ sl' = NoSlice
    /\ range_' = NoRange
    /\ current_' = 0
    /\ count_until_jump_' = 0
    /\ visited' = <<>>
    /\ UNCHANGED <<ret, checked, drv_vars, grid_vars, gas_vars, fv_vars, U, err>>

Next ==
    \/ make_cartesian_grid
    \/ structured_grid_ctor
    \/ set_freestream
    \/ finite_volume_ctor
    \/ compute_rhs_begin
    \/ interior_step
    \/ min_ifaces_step
    \/ max_ifaces_step
    \/ min_jfaces_step
    \/ max_jfaces_step
    \/ next_loop
    \/ compute_rhs_return

\* The grid, the freestream and the residual assembler.
Spec == Init /\ [][Next]_vars

\* -------------------------------------- construction from bad arguments
\* The three preconditions of the structured_grid constructor, for a size
\* argument and the length of the vertex argument.
ctor_ok_sizes_only(size, count) == size[1] >= 2 /\ size[2] >= 2

ctor_ok(size, count) ==
    /\ size[1] >= 2
    /\ size[2] >= 2
    /\ count = USize(size[1] * size[2])

\* what() of the first of them that fails.
ctor_what(size, count) ==
    CASE ~(size[1] >= 2) -> "size[0] must be 2 or more."
      [] ~(size[2] >= 2) -> "size[1] must be 2 or more."
      [] OTHER -> "Length of vertex vector doesn't match size argument."

\* count vertices laid out with unit spacing for a grid of the given size.
unit_vertices(size, count) ==
    [k \in 1..count |-> <<Num((k - 1) \div size[2]), Num((k - 1) % size[2])>>]

\* Arguments <<size, vertices>> that violate a precondition of the
\* constructor: one vertex along an axis, a vertex too few, a vertex too many.
BadCtorArgs ==
    {<<size, unit_vertices(size, size[1] * size[2])>> :
        size \in {<<1, 1>>, <<1, 2>>, <<2, 1>>, <<1, MaxNv>>}}
    \cup {<<<<2, 2>>, unit_vertices(<<2, 2>>, 3)>>,
          <<<<2, 2>>, unit_vertices(<<2, 2>>, 5)>>}

\* structured_grid(size, vertices) for such arguments.  A checked build
\* throws before update_dependent_members.  Without the checks the members
\* are initialized and the caches are filled from the vertices; with too few
\* vertices that reads outside the vector, which ends the process or yields
\* an arbitrary vertex.
structured_grid_ctor_bad_args ==
    /\ pc = "start"
    /\ \E a \in BadCtorArgs :
          LET size == a[1]
              verts == a[2]
              call == <<size, Len(verts)>>
          IN  IF checked /\ ~ctor_ok(size, Len(verts))
              THEN /\ ret' = Thrown("structured_grid::structured_grid", call,
                                    ctor_what(size, Len(verts)))
                   /\ pc' = "threw"
                   /\ err' = ctor_what(size, Len(verts))
                   /\ UNCHANGED grid_vars
              ELSE \/ /\ Len(verts) < size[1] * size[2]
                      /\ pc' = "crashed"
                      /\ UNCHANGED <<grid_vars, err, ret>>
                   \/ \E pad \in {Zero2, <<Num(1), Num(1)>>} :
                         LET read == [k \in 1..(size[1] * size[2]) |->
                                         IF k <= Len(verts) THEN verts[k] ELSE pad]
                         IN  /\ size_vertex_' = size
                             /\ vertices_' = verts
                             /\ iface_areas_' = init_iface_areas(size, read)
                             /\ jface_areas_' = init_jface_areas(size, read)
                             /\ cell_volumes_' = init_cell_volumes(size, read)
                             /\ ret' = Returned("structured_grid::structured_grid", call,
                                                size)
                             /\ pc' = "misbuilt"
                             /\ UNCHANGED err
    /\ UNCHANGED <<checked, drv_vars, gas_vars, fv_vars, rhs_vars, loop_vars>>

\* ------------------------------------------------------ calls on the API
\* What a call on the grid or on the flux functions leaves alone.
call_frame ==
    UNCHANGED <<checked, drv_vars, grid_vars, gas_vars, fv_vars, rhs_vars, pc, loop_vars, err>>

\* Where a call is made: on a grid as its constructor or translate left it.
\* The other calls are const and leave the grid as it is, so a call that
\* follows them returns what it returns here.
at_call ==
    /\ pc = "ready"
    /\ ret.op \in {"none", "structured_grid::translate"}

\* Values handed to an index parameter n of a handle accessor.
HandleArgs == 0..3

\* f.cell(n) on the i-face with id `id`: the handle's id, or the throw of the
\* first failed precondition in a checked build.
iface_handle_cell ==
    /\ at_call
    /\ \E id \in 0..(num_iface(size_vertex_) - 1), n \in HandleArgs :
          ret' = IF checked /\ ~iface_cell_ok(size_vertex_, id, n)
                 THEN Thrown("iface_handle::cell", <<id, n>>,
                             face_cell_what(size_vertex_, "iface", id, n))
                 ELSE Returned("iface_handle::cell", <<id, n>>,
                               iface_cell(size_vertex_, id, n))
    /\ call_frame

\* f.cell(n) on the j-face with id `id`.
jface_handle_cell ==
    /\ at_call
    /\ \E id \in 0..(num_jface(size_vertex_) - 1), n \in HandleArgs :
          ret' = IF checked /\ ~jface_cell_ok(size_vertex_, id, n)
                 THEN Thrown("jface_handle::cell", <<id, n>>,
                             face_cell_what(size_vertex_, "jface", id, n))
                 ELSE Returned("jface_handle::cell", <<id, n>>,
                               jface_cell(size_vertex_, id, n))
    /\ call_frame

\* Values handed to an index parameter i or j of the grid: the indices of
\* the largest grid, one past them, and -1 converted to size_t.
Indices == (0..MaxNv) \cup {SizeMod - 1}

\* The outcome of an (i, j) accessor whose id function returns id and whose
\* extent is size.
accessor_outcome(op, i, j, size, id) ==
    IF checked /\ ~compute_id_ok(<<i, j>>, size)
    THEN Thrown(op, <<i, j>>, compute_id_what(<<i, j>>, size))
    ELSE Returned(op, <<i, j>>, id)

\* grid.vertex(i, j): vertices_[compute_vertex_id({i, j})].  Without the
\* check an id past the array is read outside it.
grid_vertex ==
    /\ at_call
    /\ \E i \in Indices, j \in Indices :
          LET id == compute_vertex_id(size_vertex_, <<i, j>>)
          IN  IF ~checked /\ ~(id < Len(vertices_))
              THEN \/ /\ pc' = "crashed"
                      /\ UNCHANGED ret
                   \/ /\ ret' = Returned("structured_grid::vertex", <<i, j>>, id)
                      /\ UNCHANGED pc
              ELSE /\ ret' = accessor_outcome("structured_grid::vertex", i, j,
                                              size_vertex_, id)
                   /\ UNCHANGED pc
    /\ UNCHANGED <<checked, drv_vars, grid_vars, gas_vars, fv_vars, rhs_vars, loop_vars, err>>

\* grid.cell(i, j)
grid_cell ==
    /\ at_call
    /\ \E i \in Indices, j \in Indices :
          ret' = accessor_outcome("structured_grid::cell", i, j, size_cell(size_vertex_),
                                  compute_cell_id(size_vertex_, <<i, j>>))
    /\ call_frame

\* grid.iface(i, j)
grid_iface ==
    /\ at_call
    /\ \E i \in Indices, j \in Indices :
          ret' = accessor_outcome("structured_grid::iface", i, j, size_iface(size_vertex_),
                                  compute_iface_id(size_vertex_, <<i, j>>))
    /\ call_frame

\* grid.jface(i, j)
grid_jface ==
    /\ at_call
    /\ \E i \in Indices, j \in Indices :
          ret' = accessor_outcome("structured_grid::jface", i, j, size_jface(size_vertex_),
                                  compute_jface_id(size_vertex_, <<i, j>>))
    /\ call_frame

\* c.iface(n) on the cell with id `id`: parent_.iface(i + n, j)
cell_handle_iface ==
    /\ at_call
    /\ \E id \in 0..(num_cell(size_vertex_) - 1), n \in HandleArgs :
          LET c == compute_coordinates(id, size_cell(size_vertex_))
              f == <<USize(c[1] + n), c[2]>>
          IN  ret' = IF checked /\ ~(n < 2)
                     THEN Thrown("cell_handle::iface", <<id, n>>,
                                 "Iface index is out of range.")
                     ELSE IF checked /\ ~compute_id_ok(f, size_iface(size_vertex_))
                     THEN Thrown("cell_handle::iface", <<id, n>>,
                                 compute_id_what(f, size_iface(size_vertex_)))
                     ELSE Returned("cell_handle::iface", <<id, n>>,
                                   compute_iface_id(size_vertex_, f))
    /\ call_frame

\* c.jface(n) on the cell with id `id`: parent_.jface(i, j + n)
cell_handle_jface ==
    /\ at_call
    /\ \E id \in 0..(num_cell(size_vertex_) - 1), n \in HandleArgs :
          LET c == compute_coordinates(id, size_cell(size_vertex_))
              f == <<c[1], USize(c[2] + n)>>
          IN  ret' = IF checked /\ ~(n < 2)
                     THEN Thrown("cell_handle::jface", <<id, n>>,
                                 "Jface index is out of range.")
                     ELSE IF checked /\ ~compute_id_ok(f, size_jface(size_vertex_))
                     THEN Thrown("cell_handle::jface", <<id, n>>,
                                 compute_id_what(f, size_jface(size_vertex_)))
                     ELSE Returned("cell_handle::jface", <<id, n>>,
                                   compute_jface_id(size_vertex_, f))
    /\ call_frame

\* States handed to the flux functions: the states of the fields, a state at
\* rest with zero internal energy and one whose total energy is below its
\* kinetic energy (internal energy -1), both of positive density.
FluxStates ==
    StateSet \cup {<<Num(1), Num(0), Num(0), Num(0)>>,
                   <<Num(1), Num(2), Num(0), Num(1)>>}

\* Vectors handed to the flux functions as n.
Normals == {<<Num(1), Num(0)>>, <<Num(0), Num(1)>>, <<Rat(1, 2), Num(-1)>>}

\* euler::compute_jump_flux(ql, qr, n), called by a client.
euler_compute_jump_flux ==
    /\ at_call
    /\ \E ql \in FluxStates, qr \in FluxStates, n \in Normals :
          ret' = Returned("euler::compute_jump_flux", <<ql, qr, n>>,
                          compute_jump_flux(ql, qr, n))
    /\ call_frame

\* -------------------------------------------------------------- Plot3D
\* Digits after the decimal point of a value written: std::setprecision(15)
\* in the code, scaled to the integers of the model.
WriteDigits == 2

RECURSIVE Pow10(_)
Pow10(k) == IF k = 0 THEN 1 ELSE 10 * Pow10(k - 1)

\* The integer nearest to num/den (den > 0, num >= 0), ties to even.
RoundNearest(num, den) ==
    LET fl == num \div den
        twice == 2 * (num % den)
    IN  IF twice < den THEN fl
        ELSE IF twice > den THEN fl + 1
        ELSE IF fl % 2 = 0 THEN fl ELSE fl + 1

\* The decimal exponent of a positive rational: 10^e <= a < 10^(e+1); the
\* coordinates of the model lie between 10^-4 and 10^4.
Exponent10(a) ==
    CHOOSE e \in -4..3 :
        /\ IF e >= 0 THEN Pow10(e) * a[2] <= a[1] ELSE a[2] <= a[1] * Pow10(-e)
        /\ IF e + 1 >= 0 THEN a[1] < Pow10(e + 1) * a[2]
           ELSE a[1] * Pow10(-(e + 1)) < a[2]

\* The value of the text `out << std::scientific << std::setprecision(15) << a`
\* writes: a rounded to 1 + WriteDigits significant decimal digits.
written_value(a) ==
    IF ~IsFinite(a) THEN NaN
    ELSE IF a[1] = 0 THEN Num(0)
    ELSE LET m == <<Abs(a[1]), a[2]>>
             s == Exponent10(m) - WriteDigits
             digits == IF s >= 0 THEN RoundNearest(m[1], m[2] * Pow10(s))
                       ELSE RoundNearest(m[1] * Pow10(-s), m[2])
             v == IF s >= 0 THEN Num(digits * Pow10(s)) ELSE Rat(digits, Pow10(-s))
         IN  IF a[1] < 0 THEN RNeg(v) ELSE v

\* structured_grid::write(std::ostream&): the stream as the sequence of its
\* whitespace-separated tokens.  Each field is wider than the text of a value,
\* so tokens never run together; line breaks are whitespace.
plot3d_write(nv, verts) ==
    LET array(c) == [k \in 1..(nv[1] * nv[2]) |->
                        LET j == (k - 1) \div nv[1]
                            i == (k - 1) % nv[1]
                        IN  written_value(vertex(nv, verts, i, j)[c])]
    IN  <<Num(1), Num(nv[1]), Num(nv[2])>> \o array(1) \o array(2)

\* A reader that takes the stream as i outer, j inner.
plot3d_read_row_major(tokens) ==
    LET size == <<tokens[2][1], tokens[3][1]>>
        n == size[1] * size[2]
    IN  [size |-> size,
         vertices |-> [k \in 1..n |-> <<tokens[3 + k], tokens[3 + n + k]>>]]

\* structured_grid::read(std::istream&): the arguments it hands to the
\* constructor.  vertices[i * size[1] + j] takes the value streamed at
\* position j * size[0] + i of each array.
plot3d_read(tokens) ==
    LET size == <<tokens[2][1], tokens[3][1]>>
        n == size[1] * size[2]
    IN  [size |-> size,
         vertices |-> [k \in 1..n |->
                          LET i == (k - 1) \div size[2]
                              j == (k - 1) % size[2]
                          IN  <<tokens[3 + j * size[1] + i + 1],
                                tokens[3 + n + j * size[1] + i + 1]>>]]

\* grid.write(out) followed by structured_grid::read(in) on what was written.
write_read ==
    /\ at_call
    /\ LET tokens == plot3d_write(size_vertex_, vertices_)
       IN  ret' = Returned("structured_grid::read", <<tokens>>, plot3d_read(tokens))
    /\ call_frame

\* Offsets handed to translate: the one of the test, and -vertex(0, 0) as
\* make_hyperbolic_forebody_grid passes it.
Offsets == {<<Num(1), Num(1)>>, VScale(Num(-1), vertices_[1])}

\* How far the first vertex may have moved for translate to be called again.
MaxShift == 2

\* grid.translate(offset): adds offset to every vertex; the cached areas and
\* volumes are not touched.
translate ==
    /\ at_call
    /\ \E offset \in Offsets :
          /\ RLess(Num(0), offset[1]) => RLess(vertices_[1][1], Num(MaxShift))
          /\ vertices_' = [k \in DOMAIN vertices_ |-> VAdd(vertices_[k], offset)]
          /\ ret' = Returned("structured_grid::translate", <<offset>>, <<>>)
    /\ UNCHANGED <<size_vertex_, cell_volumes_, iface_areas_, jface_areas_>>
    /\ UNCHANGED <<checked, drv_vars, gas_vars, fv_vars, rhs_vars, pc, loop_vars, err>>

NextApi ==
    \/ translate
    \/ write_read
    \/ euler_compute_jump_flux
    \/ structured_grid_ctor_bad_args
    \/ grid_vertex
    \/ grid_cell
    \/ grid_iface
    \/ grid_jface
    \/ cell_handle_iface
    \/ cell_handle_jface
    \/ make_cartesian_grid
    \/ structured_grid_ctor
    \/ iface_handle_cell
    \/ jface_handle_cell

\* The grid and the calls a client makes on it and on the flux functions.
SpecApi == Init /\ [][NextApi]_vars

\* ============================================================== integrators
\* The largest step count handed to integrate.
MaxSteps == 3

\* The system integrated: dx/dt = R(t, x) with R(t, x)[k] = t - x[k], a
\* residual that tells its time argument from its state argument.
sys_compute_rhs(t, x) == [k \in DOMAIN x |-> RSub(t, x[k])]

Integrators == {"euler", "shu_osher", "rk4"}

\* Initial states x0.
InitialStates == {<<Num(1)>>, <<Num(0), Num(3)>>}

\* Time spans handed to integrate with step count n.
TSpans(n) ==
    {<<Num(t0), Num(t0 + (IF n = 0 THEN 1 ELSE n) * d)>> : t0 \in 0..1, d \in {2, 4}}

\* The number of compute_rhs calls of one update.
NumStages(which) ==
    CASE which = "euler" -> 1
      [] which = "shu_osher" -> 2
      [] which = "rk4" -> 4

\* The arguments (t, x) of the next compute_rhs call of update(sys, dt, t, x)
\* once the residuals in rhs have been computed.
stage_time(which, dt, t, rhs) ==
    CASE which = "euler" -> t
      [] which = "shu_osher" -> IF Len(rhs) = 0 THEN t ELSE RAdd(t, dt)
      [] which = "rk4" ->
            IF Len(rhs) = 0 THEN t
            ELSE IF Len(rhs) < 3 THEN RAdd(t, RMul(Half, dt))
            ELSE RAdd(t, RMul(Num(1), dt))

stage_state(which, dt, x, rhs) ==
    CASE which = "euler" -> x
      [] which = "shu_osher" ->
            IF Len(rhs) = 0 THEN x ELSE VAdd(x, VScale(dt, rhs[1]))
      [] which = "rk4" ->
            IF Len(rhs) = 0 THEN x
            ELSE IF Len(rhs) < 3
            THEN VAdd(x, VScale(RMul(Half, dt), rhs[Len(rhs)]))
            ELSE VAdd(x, VScale(RMul(Num(1), dt), rhs[3]))

\* An update that steps from the last stage state instead of from x.
updated_state_from_stage(which, dt, x, rhs) ==
    LET from == stage_state(which, dt, x, SubSeq(rhs, 1, Len(rhs) - 1))
    IN  [k \in DOMAIN x |-> RAdd(from[k], RMul(dt, rhs[Len(rhs)][k]))]

\* x after the loop `x[i] += dt * ...` of update.
updated_state(which, dt, x, rhs) ==
    [k \in DOMAIN x |->
        CASE which = "euler" -> RAdd(x[k], RMul(dt, rhs[1][k]))
          [] which = "shu_osher" ->
                RAdd(x[k], RDiv(RMul(dt, RAdd(rhs[1][k], rhs[2][k])), Num(2)))
          [] which = "rk4" ->
                RAdd(x[k],
                     RDiv(RMul(dt, RAdd(RAdd(RAdd(rhs[1][k],
                                                   RMul(Num(2), rhs[2][k])),
                                             RMul(Num(2), rhs[3][k])),
                                       rhs[4][k])),
                          Num(6)))]

ode_frame ==
    UNCHANGED <<checked, grid_vars, gas_vars, fv_vars, rhs_vars, loop_vars, err,
                main_vars>>

\* integrate<integrator>(sys, x, tspan, nsteps) up to its loop.
integrate ==
    /\ pc = "start"
    /\ \E which \in Integrators, x0 \in InitialStates, nsteps \in 0..MaxSteps :
          \E tspan \in TSpans(nsteps) :
              /\ integrator' = which
              /\ x_' = x0
              /\ nsteps_' = nsteps
              /\ time_' = tspan[1]
              /\ dt_' = RDiv(RSub(tspan[2], tspan[1]), Num(nsteps))
              /\ ret' = [NoCall EXCEPT !.op = "integrate",
                                       !.args = <<x0, tspan, nsteps>>]
    /\ pc' = "integrate_loop"
    /\ UNCHANGED <<rhs_, calls, updates>>
    /\ ode_frame

\* while (nsteps--): the test, the decrement, and the call of update.
integrate_loop ==
    /\ pc = "integrate_loop"
    /\ nsteps_' = USize(nsteps_ - 1)
    /\ IF nsteps_ # 0
       THEN /\ pc' = "update"
            /\ updates' = Append(updates, <<dt_, time_, x_>>)
       ELSE /\ pc' = "integrate_return"
            /\ UNCHANGED updates
    /\ UNCHANGED <<ret, integrator, time_, dt_, x_, rhs_, calls>>
    /\ ode_frame

\* The next `auto rhsK = sys.compute_rhs(...)` of update.
update_compute_rhs ==
    /\ pc = "update"
    /\ Len(rhs_) < NumStages(integrator)
    /\ LET t == stage_time(integrator, dt_, time_, rhs_)
           x == stage_state(integrator, dt_, x_, rhs_)
       IN  /\ rhs_' = Append(rhs_, sys_compute_rhs(t, x))
           /\ calls' = Append(calls, <<t, x>>)
    /\ UNCHANGED <<ret, pc, integrator, nsteps_, time_, dt_, x_, updates>>
    /\ ode_frame

\* The loop of update over the elements of x, and its return.
update_state ==
    /\ pc = "update"
    /\ Len(rhs_) = NumStages(integrator)
    /\ x_' = updated_state(integrator, dt_, x_, rhs_)
    /\ rhs_' = <<>>
    /\ pc' = "advance"
    /\ UNCHANGED <<ret, integrator, nsteps_, time_, dt_, calls, updates>>
    /\ ode_frame

\* A loop that leaves t where it was.
advance_time_skipped ==
    /\ pc = "advance"
    /\ pc' = "integrate_loop"
    /\ UNCHANGED <<ret, integrator, nsteps_, time_, dt_, x_, rhs_, calls, updates>>
    /\ ode_frame

\* t += dt
advance_time ==
    /\ pc = "advance"
    /\ time_' = RAdd(time_, dt_)
    /\ pc' = "integrate_loop"
    /\ UNCHANGED <<ret, integrator, nsteps_, dt_, x_, rhs_, calls, updates>>
    /\ ode_frame

\* return result{ t, std::move(x) }
integrate_return ==
    /\ pc = "integrate_return"
    /\ ret' = Returned("integrate", ret.args, <<time_, x_>>)
    /\ pc' = "integrate_done"
    /\ UNCHANGED ode_vars
    /\ ode_frame

NextOde ==
    \/ integrate
    \/ integrate_loop
    \/ update_compute_rhs
    \/ update_state
    \/ advance_time
    \/ integrate_return

\* integrate and the three integrators on the system above.
SpecOde == Init /\ [][NextOde]_vars

\* ===================================================== the process-wide gas
\* A client that only uses the static functions of euler: no grid is needed.
\* euler::set_freestream(p, T, vx, vy)
euler_set_freestream ==
    /\ pc \in {"start", "gas"}
    /\ pc' = "gas"
    /\ \E a \in FreestreamArgs : freestream_' = freestream_state(a[1], a[2], a[3], a[4])
    /\ UNCHANGED <<ret, checked, drv_vars, grid_vars, specific_heat_ratio_,
                   specific_gas_constant_, fv_vars, rhs_vars, loop_vars, err>>

\* euler::compute_freestream_flux(q, n), called by that client.
euler_compute_freestream_flux ==
    /\ pc = "gas"
    /\ \E q \in FluxStates, n \in Normals :
          ret' = Returned("euler::compute_freestream_flux", <<q, n>>,
                          compute_freestream_flux(q, n))
    /\ call_frame

NextGas ==
    \/ euler_set_freestream
    \/ euler_compute_freestream_flux
    \/ Next
    \/ NextOde

\* The static gas state, with every part of the program that runs while it
\* is set: its own client, the residual assembler and the integrators.
SpecGas == Init /\ [][NextGas]_vars

\* ========================================================== the solver driver
\* unsigned is narrower than std::size_t: the loop counter of main is an
\* unsigned (auto n = 0u), the step count a std::size_t.
UIntMod == 4
UInt(x) == x % UIntMod

MaxIterations == 5
MaxLines == MaxIterations + 2

\* args["solver"]["iterations"].as<std::size_t>()
Iterations == 0..MaxIterations

\* What euler_integrator::update can return to the driver: the RMS of the
\* residual, component by component.
RmsResiduals ==
    {<<Num(1), Num(1), Num(1), Num(1)>>,
     <<Num(0), Num(2), Num(0), Num(3)>>,
     <<Num(1), NaN, Num(1), Num(1)>>,
     <<NaN, NaN, NaN, NaN>>}

\* blaze::isnan of a vector: true when a component is NaN.
isnan(v) == \E k \in DOMAIN v : v[k] = NaN

main_frame ==
    UNCHANGED <<ret, checked, grid_vars, gas_vars, fv_vars, rhs_vars, loop_vars, err,
                x_, calls>>

\* main up to its loop.  finite_volume(make_hyperbolic_forebody_grid(...))
\* binds grid_ to a temporary that is gone at the end of the statement, and
\* make_state_vector already reads through it: the process may end here.
main ==
    /\ pc = "start"
    /\ \E iterations \in Iterations :
          /\ nsteps_' = iterations
          /\ dt_' = Num(1)
          /\ time_' = Num(0)
    /\ integrator' = "euler_integrator"
    /\ n_' = 0
    /\ \/ pc' = "main_for"
       \/ pc' = "crashed"
    /\ UNCHANGED <<rhs_, updates, cout_>>
    /\ main_frame

\* for (auto n = 0u; n < nsteps; ...): the test.
main_for ==
    /\ pc = "main_for"
    /\ pc' = IF n_ < nsteps_ THEN "main_update" ELSE "main_done"
    /\ UNCHANGED <<integrator, nsteps_, time_, dt_, rhs_, updates, n_, cout_>>
    /\ main_frame

\* auto rms_residual = euler_integrator::update(system, dt, time, U).  Of the
\* step the loop reads only the value it returns; compute_rhs reads the grid
\* through the dangling grid_, so the call may also end the process.
main_update ==
    /\ pc = "main_update"
    /\ Len(cout_) < MaxLines
    /\ \/ /\ \E rms \in RmsResiduals : rhs_' = rms
          /\ updates' = Append(updates, <<dt_, time_, n_>>)
          /\ pc' = "main_print"
       \/ /\ pc' = "crashed"
          /\ UNCHANGED <<rhs_, updates>>
    /\ UNCHANGED <<integrator, nsteps_, time_, dt_, n_, cout_>>
    /\ main_frame

\* The line of the step, the NaN test and ++n.
main_print ==
    /\ pc = "main_print"
    /\ cout_' = Append(cout_, <<n_, rhs_>>)
    /\ IF isnan(rhs_)
       THEN /\ pc' = "main_done"
            /\ UNCHANGED n_
       ELSE /\ pc' = "main_for"
            /\ n_' = UInt(n_ + 1)
    /\ UNCHANGED <<integrator, nsteps_, time_, dt_, rhs_, updates>>
    /\ main_frame

NextMain ==
    \/ main
    \/ main_for
    \/ main_update
    \/ main_print

SpecMain == Init /\ [][NextMain]_vars

\* The driver is one thread that runs until it returns or the process ends.
SpecMainFair == SpecMain /\ WF_vars(NextMain)

\* =================================================================== claims
\* Vocabulary of the claims, stated with plain integers.
Nvi == size_vertex_[1]
Nvj == size_vertex_[2]

\* The logical extent (size_i, size_j) of an element kind: cells
\* (Nvi-1, Nvj-1), i-faces (Nvi, Nvj-1), j-faces (Nvi-1, Nvj).
Extent(kind) ==
    CASE kind = "cell" -> <<Nvi - 1, Nvj - 1>>
      [] kind = "iface" -> <<Nvi, Nvj - 1>>
      [] kind = "jface" -> <<Nvi - 1, Nvj>>
      [] OTHER -> <<0, 0>>

\* i_lo < i_hi <= size_i and j_lo < j_hi <= size_j.
SliceOk(s) ==
    /\ s.irange[1] < s.irange[2]
    /\ s.irange[2] <= Extent(s.kind)[1]
    /\ s.jrange[1] < s.jrange[2]
    /\ s.jrange[2] <= Extent(s.kind)[2]

\* {i*size_j + j : i_lo <= i < i_hi, j_lo <= j < j_hi}
SliceIds(s) ==
    {i * Extent(s.kind)[2] + j :
        i \in s.irange[1]..(s.irange[2] - 1), j \in s.jrange[1]..(s.jrange[2] - 1)}

\* (i_hi - i_lo) * (j_hi - j_lo)
SliceCount(s) == (s.irange[2] - s.irange[1]) * (s.jrange[2] - s.jrange[1])

Elements(seq) == {seq[k] : k \in DOMAIN seq}

\* seq lists ids of S in increasing order and skips none between two it lists.
AscendingIn(seq, S) ==
    /\ Elements(seq) \subseteq S
    /\ \A k \in 1..(Len(seq) - 1) :
          /\ seq[k] < seq[k + 1]
          /\ ~\E x \in S : seq[k] < x /\ x < seq[k + 1]

\* seq lists ids of S in decreasing order and skips none between two it lists.
DescendingIn(seq, S) ==
    /\ Elements(seq) \subseteq S
    /\ \A k \in 1..(Len(seq) - 1) :
          /\ seq[k] > seq[k + 1]
          /\ ~\E x \in S : seq[k + 1] < x /\ x < seq[k]

IsMax(x, S) == x \in S /\ \A y \in S : y <= x
IsMin(x, S) == x \in S /\ \A y \in S : x <= y

\* C1: a forward loop over a valid slice dereferences the ids of the slice
\* and no other, in strictly increasing linear-index order from the smallest,
\* skipping none, and when the loop ends it has dereferenced every one of
\* them exactly once.
C1_ForwardVisitsSlice ==
    (pc \in {"for", "for_done"} /\ SliceOk(sl)) =>
        /\ AscendingIn(visited, SliceIds(sl))
        /\ (visited # <<>> => IsMin(visited[1], SliceIds(sl)))
        /\ (pc = "for" /\ current_ # range_.end_ => current_ \in SliceIds(sl))
        /\ (pc = "for_done" => Elements(visited) = SliceIds(sl))

\* C1 witness: a finished loop over a slice of several rows that is narrower
\* than the grid, so that the iterator skipped the gap between rows.
C1_Witness ==
    /\ pc = "for_done"
    /\ SliceOk(sl)
    /\ sl.irange[2] - sl.irange[1] >= 2
    /\ sl.jrange[2] - sl.jrange[1] >= 2
    /\ sl.jrange[2] - sl.jrange[1] < Extent(sl.kind)[2]
    /\ Len(visited) = SliceCount(sl)

\* C2: a forward loop over a valid slice starts at id(i_lo, j_lo), its end()
\* is id(i_hi-1, j_lo) plus the row length size_j of the grid, and the
\* iterator equals end() after exactly (i_hi-i_lo)*(j_hi-j_lo) increments,
\* never earlier.
C2_ForwardTerminates ==
    (pc = "for" /\ SliceOk(sl)) =>
        /\ range_.start_ = sl.irange[1] * Extent(sl.kind)[2] + sl.jrange[1]
        /\ range_.end_ = (sl.irange[2] - 1) * Extent(sl.kind)[2] + sl.jrange[1]
                            + Extent(sl.kind)[2]
        /\ Len(visited) <= SliceCount(sl)
        /\ (current_ = range_.end_ <=> Len(visited) = SliceCount(sl))

\* C2 witness: the iterator of a loop over a slice narrower than the grid
\* has reached end() after the full count of increments.
C2_Witness ==
    /\ pc = "for"
    /\ SliceOk(sl)
    /\ sl.jrange[2] - sl.jrange[1] < Extent(sl.kind)[2]
    /\ SliceCount(sl) >= 2
    /\ current_ = range_.end_
    /\ Len(visited) = SliceCount(sl)

\* The element count the claim gives for a named range.
NamedCount(name) ==
    CASE name = "cells" -> (Nvi - 1) * (Nvj - 1)
      [] name = "ifaces" -> Nvi * (Nvj - 1)
      [] name = "jfaces" -> (Nvi - 1) * Nvj
      [] name = "min_ifaces" -> Nvj - 1
      [] name = "max_ifaces" -> Nvj - 1
      [] name = "interior_ifaces" -> (Nvi - 2) * (Nvj - 1)
      [] name = "min_jfaces" -> Nvi - 1
      [] name = "max_jfaces" -> Nvi - 1
      [] name = "interior_jfaces" -> (Nvi - 1) * (Nvj - 2)

\* C3: a loop over a named range of a grid with Nvi, Nvj >= 2 raises no
\* error and visits exactly the number of elements the claim gives, which is
\* 0 for the interior ranges when Nvi = 2 or Nvj = 2.
C3_NamedRangeCounts ==
    (sl.name \in RangeNames) =>
        /\ pc # "threw"
        /\ (pc = "for" => Len(visited) <= NamedCount(sl.name))
        /\ (pc = "for_done" => Len(visited) = NamedCount(sl.name))

\* C4: a backward walk from end() over a valid slice first yields element
\* (i_hi-1, j_hi-1), then each time the previous element of the slice in
\* linear-index order, and the iterator equals begin() after exactly
\* (i_hi-i_lo)*(j_hi-j_lo) decrements, never earlier.
C4_BackwardMirrors ==
    (pc \in {"rev", "rev_done"} /\ SliceOk(sl)) =>
        /\ DescendingIn(visited, SliceIds(sl))
        /\ (visited # <<>> =>
              /\ visited[1] = (sl.irange[2] - 1) * Extent(sl.kind)[2] + sl.jrange[2] - 1
              /\ IsMax(visited[1], SliceIds(sl))
              /\ current_ = visited[Len(visited)])
        /\ Len(visited) <= SliceCount(sl)
        /\ (current_ = range_.start_ <=> Len(visited) = SliceCount(sl))
        /\ (pc = "rev_done" => Elements(visited) = SliceIds(sl))

\* C4 witness: a finished backward walk over a slice of several rows that is
\* narrower than the grid.
C4_Witness ==
    /\ pc = "rev_done"
    /\ SliceOk(sl)
    /\ sl.irange[2] - sl.irange[1] >= 2
    /\ sl.jrange[2] - sl.jrange[1] < Extent(sl.kind)[2]
    /\ Len(visited) = SliceCount(sl)
    /\ current_ = range_.start_

\* The interior faces of a kind by their coordinates: i-faces (i, j) with
\* 1 <= i <= Nvi-2, j-faces (i, j) with 1 <= j <= Nvj-2.
InteriorFaces(kind) ==
    IF kind = "iface"
    THEN {i * (Nvj - 1) + j : i \in 1..(Nvi - 2), j \in 0..(Nvj - 2)}
    ELSE {i * Nvj + j : i \in 0..(Nvi - 2), j \in 1..(Nvj - 2)}

\* The number of times x occurs in seq.
Occurrences(seq, x) == Cardinality({k \in DOMAIN seq : seq[k] = x})

\* A step of the body of the loop named where, over the face current_.
BodyStep(where) ==
    /\ pc = where
    /\ pc' = where
    /\ visited' = Append(visited, current_)

\* C5: the body of an interior loop, run for an interior face f with
\* L = f.cell(0) and R = f.cell(1), subtracts
\* compute_jump_flux(U[L], U[R], f.area()) from the accumulator of L, adds
\* the same flux to the accumulator of R and changes no other accumulator;
\* when the loop ends, every interior face of its kind has run the body
\* exactly once.
C5_InteriorFaceContribution ==
    [][ /\ \A w \in {"interior_ifaces", "interior_jfaces"} :
            (BodyStep(w) /\ current_ \in InteriorFaces(sl.kind)) =>
                LET left == face_cell(size_vertex_, sl.kind, current_, 0)
                    right == face_cell(size_vertex_, sl.kind, current_, 1)
                    flux == compute_jump_flux(U[left + 1], U[right + 1],
                                              face_area_of(sl.kind, current_))
                IN  /\ left # right
                    /\ R' = [R EXCEPT ![left + 1] = VSub(@, flux),
                                      ![right + 1] = VAdd(@, flux)]
        /\ (pc \in {"interior_ifaces", "interior_jfaces"} /\ pc' # pc
                /\ pc' \notin {"threw", "crashed"}) =>
                \A f \in InteriorFaces(sl.kind) : Occurrences(visited, f) = 1
      ]_vars

\* C5 witness: an interior loop has run its body for an interior face and
\* the accumulators of its two cells differ from zero.
C5_Witness ==
    /\ pc \in {"interior_ifaces", "interior_jfaces"}
    /\ visited # <<>>
    /\ visited[1] \in InteriorFaces(sl.kind)
    /\ Len(visited) = 1
    /\ R[face_cell(size_vertex_, sl.kind, visited[1], 0) + 1] # Zero4
    /\ R[face_cell(size_vertex_, sl.kind, visited[1], 1) + 1] # Zero4

\* C6 as stated: the body of the max-j loop leaves the accumulator of the
\* face's left cell alone and adds the freestream flux to the accumulator
\* of the right cell, where the grid has one.
C6_MaxJAddsToRight ==
    [][ BodyStep("max_jfaces") =>
            LET left == jface_cell(size_vertex_, current_, 0)
                right == jface_cell(size_vertex_, current_, 1)
            IN  /\ R'[left + 1] = R[left + 1]
                /\ jface_cell_ok(size_vertex_, current_, 1) =>
                      R' = [R EXCEPT ![right + 1] =
                              VAdd(@, compute_freestream_flux(U[right + 1],
                                                              jface_areas_[current_ + 1]))]
      ]_vars

\* C6: the body of the max-j loop, run for a face f with left cell
\* L = f.cell(0), subtracts compute_freestream_flux(U[L], f.area()) from the
\* accumulator of L and changes no other accumulator; f has no right cell.
C6_MaxJSubtractsFromLeft ==
    [][ BodyStep("max_jfaces") =>
            LET left == jface_cell(size_vertex_, current_, 0)
            IN  /\ ~jface_cell_ok(size_vertex_, current_, 1)
                /\ R' = [R EXCEPT ![left + 1] =
                            VSub(@, compute_freestream_flux(U[left + 1],
                                                            jface_areas_[current_ + 1]))]
      ]_vars

\* C6 witness: the max-j loop has run its body once with a freestream set,
\* and the accumulator of the left cell of its face is finite.
C6_Witness ==
    /\ pc = "max_jfaces"
    /\ Len(visited) = 1
    /\ freestream_ # Zero4
    /\ \A m \in 1..4 : IsFinite(R[jface_cell(size_vertex_, visited[1], 0) + 1][m])

\* C7: the body of the min-i loop adds compute_flux(U[R], area) to the
\* accumulator of the right cell R of its face, the body of the max-i loop
\* subtracts compute_flux(U[L], area) from that of the left cell L, the body
\* of the min-j loop adds compute_wall_flux(U[R], area) to that of the right
\* cell, a flux whose density and total-energy components are 0; no other
\* accumulator changes, and when each loop ends every face of its side has
\* run the body exactly once.
C7_BoundaryContributions ==
    [][ /\ BodyStep("min_ifaces") =>
            LET id == iface_cell(size_vertex_, current_, 1)
            IN  R' = [R EXCEPT ![id + 1] =
                        VAdd(@, compute_flux(U[id + 1], iface_areas_[current_ + 1]))]
        /\ BodyStep("max_ifaces") =>
            LET id == iface_cell(size_vertex_, current_, 0)
            IN  R' = [R EXCEPT ![id + 1] =
                        VSub(@, compute_flux(U[id + 1], iface_areas_[current_ + 1]))]
        /\ BodyStep("min_jfaces") =>
            LET id == jface_cell(size_vertex_, current_, 1)
                flux == compute_wall_flux(U[id + 1], jface_areas_[current_ + 1])
            IN  /\ R' = [R EXCEPT ![id + 1] = VAdd(@, flux)]
                /\ flux[1] = Num(0)
                /\ flux[4] = Num(0)
        /\ (pc \in {"min_ifaces", "max_ifaces", "min_jfaces"} /\ pc' # pc) =>
                /\ Elements(visited) = SliceIds(sl)
                /\ Len(visited) = Cardinality(SliceIds(sl))
      ]_vars

\* C7 witness: the min-j loop has run its body for every face of the wall
\* after the two i-boundary loops, and a wall cell has a momentum residual.
C7_Witness ==
    /\ pc = "min_jfaces"
    /\ current_ = range_.end_
    /\ Len(visited) = Nvi - 1
    /\ Nvi >= 3
    /\ \E k \in DOMAIN R : IsFinite(R[k][3]) /\ R[k][3] # Num(0)

\* C8: once the assembler is constructed, inverse_volumes_ has one entry per
\* cell and inverse_volumes_[c] * volume(c) = 1 for every cell c; a
\* compute_rhs call returns one entry per cell, the accumulator of the cell
\* multiplied by inverse_volumes_[c].
C8_InverseVolumes ==
    /\ [](fv_built =>
            /\ Len(inverse_volumes_) = (Nvi - 1) * (Nvj - 1)
            /\ \A c \in 0..((Nvi - 1) * (Nvj - 1) - 1) :
                  RMul(inverse_volumes_[c + 1], cell_volumes_[c + 1]) = Num(1))
    /\ [][ (pc = "max_jfaces" /\ pc' = "ready") =>
              /\ Len(result') = (Nvi - 1) * (Nvj - 1)
              /\ \A c \in 0..((Nvi - 1) * (Nvj - 1) - 1) :
                    result'[c + 1] = [m \in 1..4 |->
                                         RMul(R[c + 1][m], inverse_volumes_[c + 1])]
         ]_vars

\* C8, a run in which it holds: compute_rhs has returned a finite residual, not all zero, on
\* a grid of several cells whose volumes differ from 1.
C8_Witness ==
    /\ pc = "ready"
    /\ fv_built
    /\ Len(result) >= 2
    /\ \A k \in DOMAIN cell_volumes_ : cell_volumes_[k] # Num(1)
    /\ \A k \in DOMAIN result : \A m \in 1..4 : IsFinite(result[k][m])
    /\ \E k \in DOMAIN result : result[k] # Zero4

\* C9: for every grid with Nvi, Nvj >= 2 a compute_rhs call raises no
\* error, in a neighbour lookup or elsewhere, and returns a residual with
\* one entry per cell.
C9_RhsNeverRaises ==
    fv_built =>
        /\ pc \notin {"threw", "crashed"}
        /\ (pc = "ready" /\ U # <<>> => Len(result) = (Nvi - 1) * (Nvj - 1))

\* C10: for every interior i-face f at (i, j), f.cell(0) is cell (i-1, j)
\* and f.cell(1) is cell (i, j); for every interior j-face f at (i, j),
\* f.cell(0) is cell (i, j-1) and f.cell(1) is cell (i, j).
C10_NeighbourRelations ==
    (pc # "start") =>
        /\ \A i \in 1..(Nvi - 2), j \in 0..(Nvj - 2) :
              LET f == i * (Nvj - 1) + j
              IN  /\ iface_cell_ok(size_vertex_, f, 0)
                  /\ iface_cell_ok(size_vertex_, f, 1)
                  /\ iface_cell(size_vertex_, f, 0) = (i - 1) * (Nvj - 1) + j
                  /\ iface_cell(size_vertex_, f, 1) = i * (Nvj - 1) + j
        /\ \A i \in 0..(Nvi - 2), j \in 1..(Nvj - 2) :
              LET f == i * Nvj + j
              IN  /\ jface_cell_ok(size_vertex_, f, 0)
                  /\ jface_cell_ok(size_vertex_, f, 1)
                  /\ jface_cell(size_vertex_, f, 0) = i * (Nvj - 1) + j - 1
                  /\ jface_cell(size_vertex_, f, 1) = i * (Nvj - 1) + j

\* C10 witness: compute_rhs has looked up both cells of an interior j-face
\* of a grid with interior faces of both kinds.
C10_Witness ==
    /\ pc = "interior_jfaces"
    /\ Nvi >= 3
    /\ Nvj >= 3
    /\ visited # <<>>
    /\ visited[1] \in InteriorFaces("jface")

\* The i index of an i-face id and the j index of a j-face id.
IfaceI(id) == id \div (Nvj - 1)
JfaceJ(id) == id % Nvj

\* C11: in a checked build, asking an i-face at i = 0 for cell(0), an i-face
\* at i = Nvi-1 for cell(1), a j-face at j = 0 for cell(0), a j-face at
\* j = Nvj-1 for cell(1), or any face for cell(n) with n >= 2, throws instead
\* of returning a handle; at index 0 with n = 0 the coordinate handed to
\* compute_cell_id is the wrapped value of 0 - 1, the largest size_t.
C11_MissingNeighbourThrows ==
    checked =>
        /\ ret.op = "iface_handle::cell" =>
              /\ ret.args[2] >= 2 => ret.threw
              /\ (IfaceI(ret.args[1]) = 0 /\ ret.args[2] = 0) =>
                    /\ ret.threw
                    /\ iface_cell_coords(size_vertex_, ret.args[1], 0)[1] = SizeMod - 1
              /\ (IfaceI(ret.args[1]) = Nvi - 1 /\ ret.args[2] = 1) => ret.threw
        /\ ret.op = "jface_handle::cell" =>
              /\ ret.args[2] >= 2 => ret.threw
              /\ (JfaceJ(ret.args[1]) = 0 /\ ret.args[2] = 0) =>
                    /\ ret.threw
                    /\ jface_cell_coords(size_vertex_, ret.args[1], 0)[2] = SizeMod - 1
              /\ (JfaceJ(ret.args[1]) = Nvj - 1 /\ ret.args[2] = 1) => ret.threw

\* C11 witness: a checked build asked a min-i face of a grid with several
\* i-faces per column for cell(0) and got a throw.
C11_Witness ==
    /\ checked
    /\ ret.op = "iface_handle::cell"
    /\ Nvj >= 3
    /\ IfaceI(ret.args[1]) = 0
    /\ ret.args[1] >= 1
    /\ ret.args[2] = 0
    /\ ret.threw

\* The logical extent the (i, j) accessor named op indexes.
AccessorExtent(op) ==
    CASE op = "structured_grid::vertex" -> <<Nvi, Nvj>>
      [] op = "structured_grid::cell" -> Extent("cell")
      [] op = "structured_grid::iface" -> Extent("iface")
      [] op = "structured_grid::jface" -> Extent("jface")

Accessors ==
    {"structured_grid::vertex", "structured_grid::cell",
     "structured_grid::iface", "structured_grid::jface"}

\* C12: in a checked build vertex(i, j), cell(i, j), iface(i, j) and
\* jface(i, j) throw for every index pair with i >= size_i or j >= size_j
\* (a negative argument arrives as a large size_t) and return the element
\* with id i*size_j + j for every other pair; cell.iface(n) and cell.jface(n)
\* throw for n >= 2.
C12_IndexChecks ==
    checked =>
        /\ ret.op \in Accessors =>
              LET i == ret.args[1]
                  j == ret.args[2]
                  size == AccessorExtent(ret.op)
              IN  IF i >= size[1] \/ j >= size[2]
                  THEN ret.threw
                  ELSE ~ret.threw /\ ret.value = i * size[2] + j
        /\ (ret.op \in {"cell_handle::iface", "cell_handle::jface"} /\ ret.args[2] >= 2)
              => ret.threw

\* C12 witness: a checked build threw on cell(-1, 0).
C12_Witness ==
    /\ checked
    /\ ret.op = "structured_grid::cell"
    /\ ret.args = <<SizeMod - 1, 0>>
    /\ ret.threw

\* The constructor was called with Nv[0] < 2, Nv[1] < 2 or a vertex array
\* whose length is not Nv[0]*Nv[1].
CtorCalledWithBadArgs ==
    /\ ret.op = "structured_grid::structured_grid"
    /\ \/ ret.args[1][1] < 2
       \/ ret.args[1][2] < 2
       \/ ret.args[2] # ret.args[1][1] * ret.args[1][2]

\* The derived sizes and the lengths of the caches of the grid are those of
\* its vertex extent.
DerivedSizes ==
    /\ size_cell(size_vertex_) = <<Nvi - 1, Nvj - 1>>
    /\ size_iface(size_vertex_) = <<Nvi, Nvj - 1>>
    /\ size_jface(size_vertex_) = <<Nvi - 1, Nvj>>
    /\ Len(cell_volumes_) = (Nvi - 1) * (Nvj - 1)
    /\ Len(iface_areas_) = Nvi * (Nvj - 1)
    /\ Len(jface_areas_) = (Nvi - 1) * Nvj
    /\ Len(cell_volumes_) = num_cell(size_vertex_)
    /\ Len(iface_areas_) = num_iface(size_vertex_)
    /\ Len(jface_areas_) = num_jface(size_vertex_)

DegenerateCell == \E k \in DOMAIN cell_volumes_ : cell_volumes_[k] = Num(0)

\* C14: around a grid with a cell of volume 0 no assembler is constructed:
\* no inverse volume is stored and no residual is computed.
C14_DegenerateCellRejected ==
    DegenerateCell =>
        /\ ~fv_built
        /\ inverse_volumes_ = <<>>
        /\ result = <<>>

\* A step of translate that moved the grid.
Translated ==
    /\ pc = "ready"
    /\ ret'.op = "structured_grid::translate"
    /\ vertices_' # vertices_

FacesOf ==
    {<<"iface", i, j>> : i \in 0..(Nvi - 1), j \in 0..(Nvj - 2)}
        \cup {<<"jface", i, j>> : i \in 0..(Nvi - 2), j \in 0..(Nvj - 1)}
V0(f) ==
    IF f[1] = "iface" THEN vertex(size_vertex_, vertices_, f[2], f[3] + 1)
    ELSE vertex(size_vertex_, vertices_, f[2], f[3])
V1(f) ==
    IF f[1] = "iface" THEN vertex(size_vertex_, vertices_, f[2], f[3])
    ELSE vertex(size_vertex_, vertices_, f[2] + 1, f[3])
AreaOf(f) ==
    IF f[1] = "iface"
    THEN iface_areas_[compute_iface_id(size_vertex_, <<f[2], f[3]>>) + 1]
    ELSE jface_areas_[compute_jface_id(size_vertex_, <<f[2], f[3]>>) + 1]
Rotated(f) ==
    AreaOf(f) = <<RNeg(RSub(V1(f)[2], V0(f)[2])), RSub(V1(f)[1], V0(f)[1])>>
Turn(f) == cross2d(VSub(V1(f), V0(f)), AreaOf(f))

\* C16 as stated: on a constructed grid every face's cached area is
\* (-(v1.y - v0.y), v1.x - v0.x) and cross2d(v1 - v0, area) > 0.
C16_FaceAreaOrientation ==
    pc = "ready" =>
        \A f \in FacesOf : Rotated(f) /\ RLess(Num(0), Turn(f))

\* C16 amended: every face's cached area is (-(v1.y - v0.y), v1.x - v0.x);
\* cross2d(v1 - v0, area) is never negative, and it is positive exactly for
\* the faces whose two vertices differ.
C16_FaceAreaOrientationDistinct ==
    pc = "ready" =>
        \A f \in FacesOf :
            /\ Rotated(f)
            /\ ~RLess(Turn(f), Num(0))
            /\ RLess(Num(0), Turn(f)) <=> V0(f) # V1(f)

\* C16 witness: a translated grid with a face across both axes, a face
\* collapsed to a point and an i-face whose area points along +x.
C16_Witness ==
    /\ pc = "ready"
    /\ ret.op = "structured_grid::translate"
    /\ \E f \in FacesOf : AreaOf(f)[1] # Num(0) /\ AreaOf(f)[2] # Num(0)
    /\ \E f \in FacesOf : V0(f) = V1(f) /\ AreaOf(f) = Zero2
    /\ \E f \in FacesOf : f[1] = "iface" /\ RLess(Num(0), AreaOf(f)[1])

\* The grid is the one make_cartesian_grid(xrange, yrange, size_vertex_) built.
BuiltCartesian(xrange, yrange) ==
    /\ pc = "ready"
    /\ vertices_ = cartesian_vertices(xrange, yrange, size_vertex_)
Dx(xrange) == RDiv(RSub(xrange[2], xrange[1]), Num(Nvi - 1))
Dy(yrange) == RDiv(RSub(yrange[2], yrange[1]), Num(Nvj - 1))

\* What C17 says of the vertices, volumes and areas, without the sign.
CartesianGeometry(xrange, yrange) ==
    /\ \A i \in 0..(Nvi - 1), j \in 0..(Nvj - 1) :
          vertex(size_vertex_, vertices_, i, j) =
              <<RAdd(xrange[1], RMul(Num(i), Dx(xrange))),
                RAdd(yrange[1], RMul(Num(j), Dy(yrange)))>>
    /\ \A k \in DOMAIN cell_volumes_ :
          cell_volumes_[k] = RMul(Dx(xrange), Dy(yrange))
    /\ \A k \in DOMAIN iface_areas_ : iface_areas_[k] = <<Dy(yrange), Num(0)>>
    /\ \A k \in DOMAIN jface_areas_ : jface_areas_[k] = <<Num(0), Dx(xrange)>>

\* C17: on the grid make_cartesian_grid builds from any arguments it accepts,
\* vertex(i, j) = (x_min + i*dx, y_min + j*dy), every cell volume is dx*dy
\* and positive, every i-face area is (dy, 0) and every j-face area (0, dx).
C17_CartesianVolumesPositive ==
    \A xrange \in XRanges, yrange \in YRanges :
        BuiltCartesian(xrange, yrange) =>
            /\ CartesianGeometry(xrange, yrange)
            /\ \A k \in DOMAIN cell_volumes_ : RLess(Num(0), cell_volumes_[k])

\* operator== of two doubles / two vectors of doubles: a value that is not
\* finite equals nothing.
VEq(a, b) == \A k \in DOMAIN a : IsFinite(a[k]) /\ IsFinite(b[k]) /\ a[k] = b[k]

\* ret is the return of compute_jump_flux(q, q, n), q of positive density.
JumpOfEqualStates ==
    /\ ret.op = "euler::compute_jump_flux"
    /\ ret.args[1] = ret.args[2]
    /\ RLess(Num(0), ret.args[1][1])

\* C18 as stated: for every q of positive density and every n,
\* compute_jump_flux(q, q, n) = compute_flux(q, n) componentwise, whatever
\* the spectral radius is.
C18_JumpFluxConsistent ==
    JumpOfEqualStates => VEq(ret.value, compute_flux(ret.args[1], ret.args[3]))

\* C18 amended: for every q of positive density and non-negative internal
\* energy and every n, compute_jump_flux(q, q, n) = compute_flux(q, n)
\* componentwise; for q of negative internal energy the spectral radius is
\* not a number and neither is any component of the jump flux.
C18_JumpFluxConsistentFinite ==
    JumpOfEqualStates =>
        IF RLess(prim_e(ret.args[1]), Num(0))
        THEN \A k \in DOMAIN ret.value : ~IsFinite(ret.value[k])
        ELSE VEq(ret.value, compute_flux(ret.args[1], ret.args[3]))

\* C18 witness: the jump flux of a moving state with itself across a vector
\* with two non-zero components has been returned, and is not zero.
C18_Witness ==
    /\ JumpOfEqualStates
    /\ ret.args[1] = States[3]
    /\ ret.args[3] = <<Rat(1, 2), Num(-1)>>
    /\ \A k \in DOMAIN ret.value : IsFinite(ret.value[k]) /\ ret.value[k] # Num(0)

\* The Rusanov flux as C19 writes it: 1/2 (F(qL).n + F(qR).n - lam (qR - qL)).
Rusanov(ql, qr, n) ==
    LET lam == RMax(spectral_radius(ql, n), spectral_radius(qr, n))
    IN  VScale(Half, VSub(VAdd(compute_flux(ql, n), compute_flux(qr, n)),
                          VScale(lam, VSub(qr, ql))))

\* C19: compute_jump_flux(qL, qR, n) is 1/2 (F(qL).n + F(qR).n - lam (qR - qL))
\* with lam = max of the two spectral radii, lam >= 0: the dissipation is
\* subtracted with the jump taken right minus left.
C19_RusanovDissipation ==
    ret.op = "euler::compute_jump_flux" =>
        LET ql == ret.args[1]
            qr == ret.args[2]
            n == ret.args[3]
            lam == RMax(spectral_radius(ql, n), spectral_radius(qr, n))
        IN  IsFinite(lam) =>
                /\ ~RLess(lam, Num(0))
                /\ VEq(ret.value, Rusanov(ql, qr, n))

\* A Cartesian grid whose cells all hold the freestream state, which is of
\* positive density and moves along the j-min wall (v = 0).
UniformParallelFlow(size, verts, field, q) ==
    /\ \E xrange \in XRanges, yrange \in YRanges :
          verts = cartesian_vertices(xrange, yrange, size)
    /\ field # <<>>
    /\ \A k \in DOMAIN field : field[k] = q
    /\ RLess(Num(0), q[1])
    /\ q[3] = Num(0)

\* A step in which compute_rhs ends: by returning, by a throw or by the end
\* of the process.
RhsEnds ==
    /\ pc # "start"
    /\ pc' # pc
    /\ pc' \in {"ready", "threw", "crashed"}

\* C20: on a Cartesian grid whose cells all hold the freestream state, with
\* v = 0, compute_rhs returns, and the residual it returns is zero in every
\* component of every cell.
C20_UniformFlowZeroResidual ==
    [][RhsEnds /\ UniformParallelFlow(size_vertex_', vertices_', U', freestream_') =>
          /\ pc' = "ready"
          /\ result' = [k \in DOMAIN U' |-> Zero4]]_vars

\* One application of an integrator as the scheme is written down:
\* Euler x + dt k1; Shu-Osher x + dt (k1 + k2)/2; RK4
\* x + dt (k1 + 2 k2 + 2 k3 + k4)/6, every stage taken from x.
Scheme(which, dt, t, x) ==
    LET k1 == sys_compute_rhs(t, x)
        h == RDiv(dt, Num(2))
    IN  CASE which = "euler" -> VAdd(x, VScale(dt, k1))
          [] which = "shu_osher" ->
                LET k2 == sys_compute_rhs(RAdd(t, dt), VAdd(x, VScale(dt, k1)))
                IN  VAdd(x, VScale(RDiv(dt, Num(2)), VAdd(k1, k2)))
          [] which = "rk4" ->
                LET k2 == sys_compute_rhs(RAdd(t, h), VAdd(x, VScale(h, k1)))
                    k3 == sys_compute_rhs(RAdd(t, h), VAdd(x, VScale(h, k2)))
                    k4 == sys_compute_rhs(RAdd(t, dt), VAdd(x, VScale(dt, k3)))
                IN  VAdd(x, VScale(RDiv(dt, Num(6)),
                                   VAdd(VAdd(k1, VScale(Num(2), k2)),
                                        VAdd(VScale(Num(2), k3), k4))))

\* integrate has returned; its arguments.
IntegrateDone == pc = "integrate_done"
ArgX0 == ret.args[1]
ArgSpan == ret.args[2]
ArgSteps == ret.args[3]
ArgDt == RDiv(RSub(ArgSpan[2], ArgSpan[1]), Num(ArgSteps))

\* update was applied ArgSteps times, the k-th time (from 0) with step dt,
\* time t_start + k dt and the state the application before it left.
AppliedInOrder ==
    /\ Len(updates) = ArgSteps
    /\ \A k \in 1..Len(updates) :
          /\ updates[k][1] = ArgDt
          /\ updates[k][2] = RAdd(ArgSpan[1], RMul(Num(k - 1), ArgDt))
          /\ updates[k][3] =
                IF k = 1 THEN ArgX0
                ELSE Scheme(integrator, ArgDt, updates[k - 1][2], updates[k - 1][3])
    /\ ret.value[2] =
          IF ArgSteps = 0 THEN ArgX0
          ELSE Scheme(integrator, ArgDt, updates[ArgSteps][2], updates[ArgSteps][3])

\* C21 as stated: integrate applies update exactly n_steps times, the k-th
\* time with t_start + k dt, dt = (t_end - t_start)/n_steps and the state of
\* application k-1, and returns t_end and the last state, for any n_steps.
C21_IntegrateRunsAllSteps ==
    IntegrateDone => AppliedInOrder /\ ret.value[1] = ArgSpan[2]

\* C21 amended: the same for n_steps >= 1, where the returned time is the
\* accumulated t_start + n_steps dt = t_end; for n_steps = 0 no update is
\* applied and integrate returns (t_start, x0).
C21_IntegrateRunsAllStepsOrNone ==
    IntegrateDone =>
        /\ AppliedInOrder
        /\ ret.value[1] = IF ArgSteps = 0 THEN ArgSpan[1] ELSE ArgSpan[2]
        /\ ArgSteps = 0 => ret.value = <<ArgSpan[1], ArgX0>> /\ calls = <<>>

\* C21 witness: RK4 has run MaxSteps steps over a span that does not start
\* at 0 and has returned the end of the span and a state that is not x0.
C21_Witness ==
    /\ IntegrateDone
    /\ integrator = "rk4"
    /\ ArgSteps = MaxSteps
    /\ Len(updates) = MaxSteps
    /\ ArgSpan[1] = Num(1)
    /\ ret.value[1] = ArgSpan[2]
    /\ ret.value[2] # ArgX0

\* The (t, x) of the compute_rhs calls of one step, in order, as the schemes
\* are written down.
SchemeCalls(which, dt, t, x) ==
    LET k1 == sys_compute_rhs(t, x)
        h == RDiv(dt, Num(2))
    IN  CASE which = "euler" -> << <<t, x>> >>
          [] which = "shu_osher" ->
                << <<t, x>>, <<RAdd(t, dt), VAdd(x, VScale(dt, k1))>> >>
          [] which = "rk4" ->
                LET k2 == sys_compute_rhs(RAdd(t, h), VAdd(x, VScale(h, k1)))
                    k3 == sys_compute_rhs(RAdd(t, h), VAdd(x, VScale(h, k2)))
                IN  << <<t, x>>,
                       <<RAdd(t, h), VAdd(x, VScale(h, k1))>>,
                       <<RAdd(t, h), VAdd(x, VScale(h, k2))>>,
                       <<RAdd(t, dt), VAdd(x, VScale(dt, k3))>> >>

\* C22: while update runs, a step either evaluates compute_rhs once more and
\* leaves x as it is, or it is the one step that changes x; at that step the
\* compute_rhs calls of this update are the 1, 2 or 4 calls of the scheme,
\* in order and all taken from the x the update was called with, and the new
\* x is x + dt k1 (Euler), x + dt (k1 + k2)/2 (Shu-Osher) or
\* x + dt (k1 + 2 k2 + 2 k3 + k4)/6 (RK4).
C22_StagesThenUpdate ==
    [][pc = "update" =>
          IF pc' = "update"
          THEN /\ x_' = x_
               /\ Len(calls') = Len(calls) + 1
          ELSE LET ns == Len(SchemeCalls(integrator, dt_, time_, x_))
               IN  /\ Len(calls) = ns * Len(updates)
                   /\ SubSeq(calls, Len(calls) - ns + 1, Len(calls)) =
                          SchemeCalls(integrator, dt_, time_, x_)
                   /\ updates[Len(updates)] = <<dt_, time_, x_>>
                   /\ x_' = Scheme(integrator, dt_, time_, x_)
                   /\ calls' = calls]_vars

\* C22 witness: the second RK4 step has updated x after its four calls.
C22_Witness ==
    /\ pc = "advance"
    /\ integrator = "rk4"
    /\ Len(updates) = 2
    /\ Len(calls) = 8
    /\ x_ = Scheme("rk4", dt_, updates[2][2], updates[2][3])
    /\ x_ # updates[2][3]

\* ret is what read made of the stream write produced from the grid.
ReadOfWrite == pc = "ready" /\ ret.op = "structured_grid::read"
Stream == ret.args[1]
GridPoints == {<<i, j>> : i \in 0..(Nvi - 1), j \in 0..(Nvj - 1)}

\* The stream is the header (1; Nvi Nvj), then all X, then all Y, each array
\* with i fastest inside j, every value as its text gives it.
StreamLayout ==
    /\ Len(Stream) = 3 + 2 * Nvi * Nvj
    /\ Stream[1] = Num(1) /\ Stream[2] = Num(Nvi) /\ Stream[3] = Num(Nvj)
    /\ \A p \in GridPoints :
          LET v == vertex(size_vertex_, vertices_, p[1], p[2])
              k == p[2] * Nvi + p[1]
          IN  /\ Stream[3 + k + 1] = written_value(v[1])
              /\ Stream[3 + Nvi * Nvj + k + 1] = written_value(v[2])

\* read stored the value streamed at position (i, j) of each array into
\* vertices[i * Nvj + j].
StoredInPlace ==
    /\ ret.value.size = size_vertex_
    /\ Len(ret.value.vertices) = Nvi * Nvj
    /\ \A p \in GridPoints :
          ret.value.vertices[p[1] * Nvj + p[2] + 1] =
              <<Stream[3 + p[2] * Nvi + p[1] + 1],
                Stream[3 + Nvi * Nvj + p[2] * Nvi + p[1] + 1]>>

\* C23 as stated: read(write(g)) has the sizes of g and the same vertex at
\* every (i, j); the stream has the Plot3D layout and read stores each value
\* at vertices[i * Nvj + j].
C23_Plot3dRoundTrip ==
    ReadOfWrite =>
        /\ StreamLayout
        /\ StoredInPlace
        /\ \A p \in GridPoints :
              vertex(ret.value.size, ret.value.vertices, p[1], p[2]) =
                  vertex(size_vertex_, vertices_, p[1], p[2])

\* C23 amended: read(write(g)) has the sizes of g, and its vertex at every
\* (i, j) is the vertex of g at (i, j) with each coordinate rounded to the
\* digits written; nothing is transposed or swapped between X and Y.
C23_Plot3dRoundTripRounded ==
    ReadOfWrite =>
        /\ StreamLayout
        /\ StoredInPlace
        /\ \A p \in GridPoints :
              LET v == vertex(size_vertex_, vertices_, p[1], p[2])
              IN  vertex(ret.value.size, ret.value.vertices, p[1], p[2]) =
                      <<written_value(v[1]), written_value(v[2])>>

\* C23 witness: a grid with more vertices along i than along j and a vertex
\* whose coordinates are not written exactly has been written and read back.
C23_Witness ==
    /\ ReadOfWrite
    /\ Nvi = MaxNv /\ Nvj = 2
    /\ vertex(size_vertex_, vertices_, 1, 1) = <<Rat(4, 3), Rat(2, 3)>>
    /\ vertex(ret.value.size, ret.value.vertices, 1, 1) = <<Rat(133, 100), Rat(667, 1000)>>
    /\ vertex(ret.value.size, ret.value.vertices, 2, 0) = <<Num(2), Num(0)>>

\* A step in which compute_freestream_flux returns.
FreestreamFluxReturns ==
    /\ ret'.op = "euler::compute_freestream_flux"
    /\ ret' # ret

\* C24: compute_freestream_flux(q, n) returns compute_flux(s, n) for the state
\* s the last set_freestream stored, whatever q is, and leaves s alone; only
\* set_freestream changes s, to the state of its arguments; no step of
\* compute_rhs or of an integrator changes s or the gas parameters.
C24_FreestreamFluxIgnoresState ==
    [][/\ FreestreamFluxReturns =>
            /\ VEq(ret'.value, compute_flux(freestream_, ret'.args[2]))
            /\ UNCHANGED gas_vars
       /\ gas_vars' # gas_vars =>
            /\ pc \in {"start", "gas", "ready"}
            /\ pc' = pc \/ pc' = "gas"
            /\ \E a \in FreestreamArgs :
                  freestream_' = freestream_state(a[1], a[2], a[3], a[4])
            /\ UNCHANGED <<specific_heat_ratio_, specific_gas_constant_>>
       /\ (pc \in RhsLoopSet \/ pc \in {"integrate_loop", "update", "advance"})
            => UNCHANGED gas_vars]_vars

\* C24 witness: after a second set_freestream the flux of a call with a state
\* that is not the freestream has come back as the flux of the new freestream,
\* different from the flux of the state handed in.
C24_Witness ==
    /\ pc = "gas"
    /\ ret.op = "euler::compute_freestream_flux"
    /\ ret.args[1] = States[3]
    /\ freestream_ = States[1]
    /\ VEq(ret.value, compute_flux(States[1], ret.args[2]))
    /\ ret.value # compute_flux(ret.args[1], ret.args[2])

\* The steps the driver has executed and the lines it has printed.
Executed == Len(updates)
Printed == Len(cout_)
InDriver == pc \in {"main_for", "main_update", "main_print", "main_done"}

\* C25: the driver runs steps 0, 1, 2, ... in order and prints one line per
\* executed step; a step whose RMS residual has a NaN component is printed and
\* is the last; otherwise exactly `iterations` steps run; and the loop ends.
C25_DriverLoop ==
    /\ [](integrator = "euler_integrator" =>
            /\ \A k \in 1..Executed : updates[k][3] = k - 1
            /\ \A k \in 1..Printed : cout_[k][1] = k - 1
            /\ Printed = IF pc = "main_print" THEN Executed - 1 ELSE Executed
            /\ \A k \in 1..Printed : isnan(cout_[k][2]) => k = Executed
            /\ Executed <= nsteps_
            /\ pc = "main_done" =>
                  \/ Executed = nsteps_
                  \/ Printed > 0 /\ isnan(cout_[Printed][2]))
    /\ <>(integrator = "euler_integrator" => pc = "main_done")

\* The spectral radius as C26 writes it: c + |u n_x + v n_y|.
RadiusOfNormalVelocity(q, n) ==
    RAdd(compute_sound_speed(prim_e(q), q[1]),
         RAbs(RAdd(RMul(prim_u(q), n[1]), RMul(prim_v(q), n[2]))))

\* C26: the flux compute_jump_flux returns is the one its formula gives with
\* lam the larger of c + |u n_x + v n_y| over the two states: the normal
\* velocity in the spectral radius takes the y-velocity v in its second term.
C26_SpectralRadiusNormalVelocity ==
    ret.op = "euler::compute_jump_flux" =>
        LET ql == ret.args[1]
            qr == ret.args[2]
            n == ret.args[3]
            lam == RMax(RadiusOfNormalVelocity(ql, n), RadiusOfNormalVelocity(qr, n))
        IN  IsFinite(lam) =>
                VEq(ret.value,
                    VScale(Half, VSub(VAdd(compute_flux(ql, n), compute_flux(qr, n)),
                                      VScale(lam, VSub(ql, qr)))))

\* The iterator of the walk as the pair (id, countdown).
WalkIt == <<current_, count_until_jump_>>

\* C27: in every state a walk reaches from begin() or end() by ++ and -- in
\* any order, the iterator is on an element of the slice or at end() with a
\* countdown in 1..interval_, ++ followed by -- gives back the same
\* (id, countdown) pair, and so does -- followed by ++.
C27_IncrementDecrementInverse ==
    pc = "walk" =>
        /\ current_ \in SliceIds(sl) \cup {range_.end_}
        /\ count_until_jump_ \in 1..range_.interval_
        /\ current_ = range_.end_ => WalkIt = end(range_)
        /\ current_ = range_.start_ => WalkIt = begin(range_)
        /\ current_ # range_.end_ =>
              decrement(range_, increment(range_, WalkIt)) = WalkIt
        /\ current_ # range_.start_ =>
              increment(range_, decrement(range_, WalkIt)) = WalkIt

\* C27 witness: a walk has just stepped back over the gap between two rows of
\* a slice that is narrower than the grid and can step forward over it again.
C27_Witness ==
    /\ pc = "walk"
    /\ range_.offset_ > 0
    /\ range_.interval_ > 1
    /\ count_until_jump_ = 1
    /\ visited = <<current_ + 1 + range_.offset_>>
    /\ increment(range_, WalkIt) = <<visited[1], range_.interval_>>

\* The ids a named range of the grid yields, as a sequence and as a set.
RangeSeq(name) == for_each(size_vertex_, NamedRange(size_vertex_, name))
RangeIds(name) == Elements(RangeSeq(name))
NoRepeat(seq) == \A a, b \in DOMAIN seq : seq[a] = seq[b] => a = b

\* min, interior and max ranges are pairwise disjoint and cover the full one.
Partition(min, interior, max, all, n) ==
    /\ RangeIds(min) \cap RangeIds(interior) = {}
    /\ RangeIds(min) \cap RangeIds(max) = {}
    /\ RangeIds(interior) \cap RangeIds(max) = {}
    /\ RangeIds(min) \cup RangeIds(interior) \cup RangeIds(max) = RangeIds(all)
    /\ RangeIds(all) = 0..(n - 1)
    /\ \A r \in {min, interior, max, all} : NoRepeat(RangeSeq(r))

\* The cells a loop of compute_rhs takes from a face: f.cell(n) for these n.
SidesOf(loop) ==
    CASE loop \in {"interior_ifaces", "interior_jfaces"} -> {0, 1}
      [] loop \in {"min_ifaces", "min_jfaces"} -> {1}
      [] OTHER -> {0}

KindOf(loop) == IF loop \in {"interior_ifaces", "min_ifaces", "max_ifaces"}
                THEN "iface" ELSE "jface"

\* The contributions cell c receives in the six loops: <<kind, face, n>> for
\* each face f of a loop with f.cell(n) = c among the cells the loop takes.
ContributionsTo(c) ==
    {x \in UNION {{<<KindOf(loop), f, n>> : f \in RangeIds(loop), n \in SidesOf(loop)} :
                    loop \in RhsLoopSet} :
        face_cell(size_vertex_, x[1], x[2], x[3]) = c}

\* The four faces of cell c, each with the side of the face the cell is on.
FourFaces(c) ==
    {<<"iface", cell_iface(size_vertex_, c, 0), 1>>,
     <<"iface", cell_iface(size_vertex_, c, 1), 0>>,
     <<"jface", cell_jface(size_vertex_, c, 0), 1>>,
     <<"jface", cell_jface(size_vertex_, c, 1), 0>>}

\* C28: when the six loops of compute_rhs have run on a grid with
\* Nvi, Nvj >= 3, the min, interior and max face ranges of the grid
\* partition ifaces() and jfaces(); each loop has visited exactly
\* the faces of its range, once each, and changes the residual only of the
\* cells of the face it is at; and each cell receives exactly four
\* contributions, one from each of its -i, +i, -j and +j faces.
C28_FacesPartitionFourContributions ==
    /\ []((pc \in RhsLoopSet /\ current_ = range_.end_ /\ Nvi >= 3 /\ Nvj >= 3) =>
            /\ visited = RangeSeq(pc)
            /\ pc = "max_jfaces" =>
                  /\ Partition("min_ifaces", "interior_ifaces", "max_ifaces", "ifaces",
                               num_iface(size_vertex_))
                  /\ Partition("min_jfaces", "interior_jfaces", "max_jfaces", "jfaces",
                               num_jface(size_vertex_))
                  /\ \A c \in 0..(num_cell(size_vertex_) - 1) :
                        /\ ContributionsTo(c) = FourFaces(c)
                        /\ Cardinality(FourFaces(c)) = 4)
    /\ [][(pc \in RhsLoopSet /\ pc' = pc /\ Nvi >= 3 /\ Nvj >= 3) =>
            /\ visited' = Append(visited, current_)
            /\ current_ \in RangeIds(pc)
            /\ \A k \in DOMAIN R :
                  R'[k] # R[k] =>
                      \E n \in SidesOf(pc) :
                          face_cell(size_vertex_, sl.kind, current_, n) = k - 1]_vars

\* C28 witness: the last loop of compute_rhs has ended on a 3 x 3 grid and
\* every cell's residual has been written.
C28_Witness ==
    /\ pc = "max_jfaces"
    /\ current_ = range_.end_
    /\ Nvi = 3
    /\ Nvj = 3
    /\ visited = RangeSeq("max_jfaces")
    /\ \A k \in DOMAIN R : R[k] # Zero4

\* The sum of a sequence of flux vectors, in the order of the sequence.
RECURSIVE FluxSum(_)
FluxSum(seq) ==
    IF seq = <<>> THEN Zero4 ELSE VAdd(FluxSum(SubSeq(seq, 1, Len(seq) - 1)), seq[Len(seq)])

\* The flux a boundary loop of compute_rhs takes at face f.
BoundaryFlux(loop, f) ==
    LET id == face_cell(size_vertex_, KindOf(loop), f, CHOOSE n \in SidesOf(loop) : TRUE)
        a == face_area_of(KindOf(loop), f)
    IN  CASE loop \in {"min_ifaces", "max_ifaces"} -> compute_flux(U[id + 1], a)
          [] loop = "min_jfaces" -> compute_wall_flux(U[id + 1], a)
          [] OTHER -> compute_freestream_flux(U[id + 1], a)

\* The fluxes of one boundary, summed over its faces.
BoundaryTotal(loop) ==
    FluxSum([k \in 1..Len(RangeSeq(loop)) |-> BoundaryFlux(loop, RangeSeq(loop)[k])])

\* + flux for min-i and min-j faces, - flux for max-i and max-j faces.
BoundaryContributions ==
    VSub(VAdd(BoundaryTotal("min_ifaces"), BoundaryTotal("min_jfaces")),
         VAdd(BoundaryTotal("max_ifaces"), BoundaryTotal("max_jfaces")))

\* The sum over the cells of volume(c) * res[c].
VolumeWeightedTotal(res) ==
    FluxSum([k \in 1..Len(res) |-> VScale(cell_volumes_[k], res[k])])

FiniteFlux(v) == \A k \in DOMAIN v : IsFinite(v[k])

\* C29: for every state field U with finite boundary fluxes, the residual compute_rhs returns satisfies
\* sum over cells of volume(c) * R[c] = sum of the boundary-face contributions:
\* the contributions of the interior faces cancel.
C29_DiscreteConservation ==
    [][(pc = "max_jfaces" /\ pc' = "ready" /\ FiniteFlux(BoundaryContributions)) =>
          VEq(VolumeWeightedTotal(result'), BoundaryContributions)]_vars

\* The outward area vectors of cell c summed: + its max-i and max-j faces,
\* - its min-i and min-j faces.
OutwardAreaSum(c) ==
    VAdd(VSub(iface_areas_[cell_iface(size_vertex_, c, 1) + 1],
              iface_areas_[cell_iface(size_vertex_, c, 0) + 1]),
         VSub(jface_areas_[cell_jface(size_vertex_, c, 1) + 1],
              jface_areas_[cell_jface(size_vertex_, c, 0) + 1]))

====
